---------------------------- MODULE Spec2Model ----------------------------
(***************************************************************************)
(* A model of the nucypher-core message layer as seen through its WASM     *)
(* bindings (nucypher-core-wasm/src/lib.rs) and of the threshold           *)
(* decryption messages (nucypher-core/src/dkg.rs).                         *)
(*                                                                         *)
(* The library is a set of constructors and read-only operations on        *)
(* immutable values.  The state is what a caller of the library holds:     *)
(* the object it constructed last (obj) with the arguments it was made     *)
(* from (made), the byte string it serialized or received (data), the      *)
(* name, arguments and outcome of the last call (op, inp, res), and what   *)
(* is left in the caller's hands of the object it passed to the last       *)
(* constructor (arg).  A call                                              *)
(* ends in one of three ways: it returns a value ("ok"), it returns an     *)
(* error value ("err"), or it panics ("panic": unwrap/expect/assert).      *)
(*                                                                         *)
(* Keys, signatures and ciphertexts are symbolic (the PRE engine is an     *)
(* external collaborator): a public key names its secret key, a            *)
(* ciphertext names the key that opens it and what it holds.               *)
(***************************************************************************)
EXTENDS Integers, Sequences, FiniteSets, TLC

VARIABLES obj, made, data, op, inp, res, arg

vars == <<obj, made, data, op, inp, res, arg>>

-----------------------------------------------------------------------------
(* Bounds of the model *)

\* number of key pairs in play
NKeys == 2
\* number of distinct capsule nonces the encryptor's randomness can produce
NNonces == 2
\* number of policy labels
NLabels == 2
\* largest number of capsules / fragments passed in one list
MaxList == 3
\* a message cut short in flight keeps fewer than this many of its bytes
TamperSpan == 9
\* number of threads calling into one object at the same time
NThreads == 2

-----------------------------------------------------------------------------
(* Outcomes of a call *)

NoVal == <<>>

Ok(v) == [status |-> "ok", err |-> "", val |-> v]

Err(e) == [status |-> "err", err |-> e, val |-> NoVal]

Panic(msg) == [status |-> "panic", err |-> msg, val |-> NoVal]

IsOk(r) == r.status = "ok"

\* lib.rs map_js_err: the error's Display text becomes a JS Error value
map_js_err(e) == Err(e)

NoObject == [kind |-> "none"]

NoArgs == [none |-> TRUE]

-----------------------------------------------------------------------------
(* The PRE engine, symbolically *)

SecretKeys == 1 .. NKeys

PublicKeyOf(sk) == [pk |-> sk]

PublicKeys == {PublicKeyOf(sk) : sk \in SecretKeys}

Signer(sk) == [signer |-> sk]

Signers == {Signer(sk) : sk \in SecretKeys}

verifying_key(signer) == PublicKeyOf(signer.signer)

Nonces == 1 .. NNonces

Plaintexts == {<<>>, <<72, 105>>}

\* a capsule made for public key pk; the nonce is the encryptor's randomness
Capsule(pk, nonce) == [delegating |-> pk, nonce |-> nonce]

Capsules == {Capsule(pk, n) : pk \in PublicKeys, n \in Nonces}

-----------------------------------------------------------------------------
(* MessagePack, the payload encoding (versioning.rs messagepack_serialize  *)
(* and messagepack_deserialize).  A struct is a map from field names to    *)
(* values, written in declaration order.                                   *)

\* an Option value
None == [some |-> FALSE, v |-> <<>>]

Some(x) == [some |-> TRUE, v |-> x]

\* unsigned integer: positive fixint, uint 8 (0xcc), uint 16 (0xcd, big-endian)
mp_uint(n) ==
    IF n < 128 THEN <<n>>
    ELSE IF n < 256 THEN <<204, n>>
    ELSE <<205, n \div 256, n % 256>>

\* string of at most 31 bytes: fixstr (0xa0 + length)
mp_str(str) == <<160 + Len(str)>> \o str

RECURSIVE mp_uints(_)
mp_uints(bs) == IF bs = <<>> THEN <<>> ELSE mp_uint(Head(bs)) \o mp_uints(Tail(bs))

\* Box<[u8]> without serde_bytes: a sequence of integers, fixarray (0x90 + length)
mp_u8seq(bs) == <<144 + Len(bs)>> \o mp_uints(bs)

\* Option<String>: nil (0xc0) or the string
mp_opt_str(o) == IF o.some THEN mp_str(o.v) ELSE <<192>>

Fail == [ok |-> FALSE, val |-> 0, rest |-> <<>>]

Got(v, rest) == [ok |-> TRUE, val |-> v, rest |-> rest]

Drop(s, n) == SubSeq(s, n + 1, Len(s))

rd_uint(s) ==
    IF s = <<>> THEN Fail
    ELSE IF s[1] < 128 THEN Got(s[1], Drop(s, 1))
    ELSE IF s[1] = 204 /\ Len(s) >= 2 THEN Got(s[2], Drop(s, 2))
    ELSE IF s[1] = 205 /\ Len(s) >= 3 THEN Got(s[2] * 256 + s[3], Drop(s, 3))
    ELSE Fail

rd_str(s) ==
    IF s = <<>> THEN Fail
    ELSE IF s[1] >= 160 /\ s[1] < 192 /\ Len(s) >= 1 + (s[1] - 160)
         THEN Got(SubSeq(s, 2, 1 + (s[1] - 160)), Drop(s, 1 + (s[1] - 160)))
    ELSE Fail

RECURSIVE rd_uints(_, _, _)
rd_uints(s, n, acc) ==
    IF n = 0 THEN Got(acc, s)
    ELSE LET e == rd_uint(s)
         IN  IF e.ok /\ e.val < 256 THEN rd_uints(e.rest, n - 1, Append(acc, e.val))
             ELSE Fail

rd_u8seq(s) ==
    IF s = <<>> THEN Fail
    ELSE IF s[1] >= 144 /\ s[1] < 160 THEN rd_uints(Drop(s, 1), s[1] - 144, <<>>)
    ELSE Fail

rd_opt_str(s) ==
    IF s = <<>> THEN Fail
    ELSE IF s[1] = 192 THEN Got(None, Drop(s, 1))
    ELSE LET e == rd_str(s) IN IF e.ok THEN Got(Some(e.val), e.rest) ELSE Fail

\* the field name expected next
rd_key(s, name) ==
    LET e == rd_str(s) IN IF e.ok /\ e.val = name THEN e ELSE Fail

\* a value of the given type
rd_value(type, s) ==
    CASE type = "uint" -> rd_uint(s)
      [] type = "u8seq" -> rd_u8seq(s)
      [] type = "optstr" -> rd_opt_str(s)
      [] type = "str" -> rd_str(s)

\* the fields of a struct one after the other, each a name and then a value;
\* the values are collected in acc
RECURSIVE rd_fields(_, _, _)
rd_fields(s, fields, acc) ==
    IF fields = <<>> THEN Got(acc, s)
    ELSE LET k == rd_key(s, Head(fields).name)
         IN  IF ~k.ok THEN Fail
             ELSE LET v == rd_value(Head(fields).type, k.rest)
                  IN  IF ~v.ok THEN Fail
                      ELSE rd_fields(v.rest, Tail(fields), Append(acc, v.val))

\* a struct of n fields opens with fixmap (0x80 + n)
rd_struct(s, n) ==
    IF s # <<>> /\ s[1] = 128 + n THEN Got(n, Drop(s, 1)) ELSE Fail

-----------------------------------------------------------------------------
(* Threshold decryption messages (dkg.rs) *)

FerveoVariant == {"SIMPLE", "PRECOMPUTED"}

\* the variant's name as MessagePack writes it
variant_name(v) ==
    IF v = "SIMPLE" THEN <<83, 73, 77, 80, 76, 69>>
    ELSE <<80, 82, 69, 67, 79, 77, 80, 85, 84, 69, 68>>

ThresholdDecryptionRequest_new(ritual_id, ciphertext, conditions, context, variant) ==
    [kind |-> "ThresholdDecryptionRequest",
     ritual_id |-> ritual_id,
     ciphertext |-> ciphertext,
     conditions |-> conditions,
     context |-> context,
     variant |-> variant]

\* a request whose version pair is written minor first
ThresholdDecryptionRequest_version_swapped == <<0, 1>>

ThresholdDecryptionRequest_version == <<1, 0>>

\* a request carrying the response's brand
ThresholdDecryptionRequest_brand_of_response == <<84, 104, 82, 115>>

\* "ThRq"
ThresholdDecryptionRequest_brand == <<84, 104, 82, 113>>

ThresholdDecryptionRequest_unversioned_to_bytes(x) ==
    <<128 + 5>>
    \o mp_str(<<114, 105, 116, 117, 97, 108, 95, 105, 100>>) \o mp_uint(x.ritual_id)
    \o mp_str(<<99, 105, 112, 104, 101, 114, 116, 101, 120, 116>>) \o mp_u8seq(x.ciphertext)
    \o mp_str(<<99, 111, 110, 100, 105, 116, 105, 111, 110, 115>>) \o mp_opt_str(x.conditions)
    \o mp_str(<<99, 111, 110, 116, 101, 120, 116>>) \o mp_opt_str(x.context)
    \o mp_str(<<118, 97, 114, 105, 97, 110, 116>>) \o mp_str(variant_name(x.variant))

ThresholdDecryptionRequest_fields ==
    <<[name |-> <<114, 105, 116, 117, 97, 108, 95, 105, 100>>, type |-> "uint"],
      [name |-> <<99, 105, 112, 104, 101, 114, 116, 101, 120, 116>>, type |-> "u8seq"],
      [name |-> <<99, 111, 110, 100, 105, 116, 105, 111, 110, 115>>, type |-> "optstr"],
      [name |-> <<99, 111, 110, 116, 101, 120, 116>>, type |-> "optstr"],
      [name |-> <<118, 97, 114, 105, 97, 110, 116>>, type |-> "str"]>>

\* a deserializer that hands the two optional strings to the wrong fields
ThresholdDecryptionRequest_deserialize_swapped(bytes) ==
    LET h == rd_struct(bytes, 5)
        f == IF h.ok THEN rd_fields(h.rest, ThresholdDecryptionRequest_fields, <<>>) ELSE Fail
    IN  IF f.ok /\ f.rest = <<>>
           /\ \E v \in FerveoVariant : variant_name(v) = f.val[5]
        THEN Ok(ThresholdDecryptionRequest_new(
                 f.val[1], f.val[2], f.val[4], f.val[3],
                 CHOOSE v \in FerveoVariant : variant_name(v) = f.val[5]))
        ELSE Err("FieldError")

\* messagepack_deserialize::<ThresholdDecryptionRequest>
ThresholdDecryptionRequest_deserialize(bytes) ==
    LET h == rd_struct(bytes, 5)
        f == IF h.ok THEN rd_fields(h.rest, ThresholdDecryptionRequest_fields, <<>>) ELSE Fail
    IN  IF f.ok /\ f.rest = <<>>
           /\ \E v \in FerveoVariant : variant_name(v) = f.val[5]
        THEN Ok(ThresholdDecryptionRequest_new(
                 f.val[1], f.val[2], f.val[3], f.val[4],
                 CHOOSE v \in FerveoVariant : variant_name(v) = f.val[5]))
        ELSE Err("FieldError")

\* None: this minor version has no parser
ThresholdDecryptionRequest_unversioned_from_bytes(minor_version, bytes) ==
    IF minor_version = 0
    THEN Some(ThresholdDecryptionRequest_deserialize(bytes))
    ELSE None

ThresholdDecryptionResponse_new(decryption_share) ==
    [kind |-> "ThresholdDecryptionResponse", decryption_share |-> decryption_share]

ThresholdDecryptionResponse_version == <<1, 0>>

\* a response carrying the request's brand
ThresholdDecryptionResponse_brand_of_request == <<84, 104, 82, 113>>

\* "ThRs"
ThresholdDecryptionResponse_brand == <<84, 104, 82, 115>>

ThresholdDecryptionResponse_unversioned_to_bytes(x) ==
    <<128 + 1>>
    \o mp_str(<<100, 101, 99, 114, 121, 112, 116, 105, 111, 110, 95, 115, 104, 97, 114, 101>>)
    \o mp_u8seq(x.decryption_share)

ThresholdDecryptionResponse_fields ==
    <<[name |-> <<100, 101, 99, 114, 121, 112, 116, 105, 111, 110, 95, 115, 104, 97, 114, 101>>,
       type |-> "u8seq"]>>

\* messagepack_deserialize::<ThresholdDecryptionResponse>
ThresholdDecryptionResponse_deserialize(bytes) ==
    LET h == rd_struct(bytes, 1)
        f == IF h.ok THEN rd_fields(h.rest, ThresholdDecryptionResponse_fields, <<>>) ELSE Fail
    IN  IF f.ok /\ f.rest = <<>>
        THEN Ok(ThresholdDecryptionResponse_new(f.val[1]))
        ELSE Err("FieldError")

\* a parser that also takes minor version 1
ThresholdDecryptionResponse_unversioned_from_bytes_lenient(minor_version, bytes) ==
    IF minor_version <= 1
    THEN Some(ThresholdDecryptionResponse_deserialize(bytes))
    ELSE None

ThresholdDecryptionResponse_unversioned_from_bytes(minor_version, bytes) ==
    IF minor_version = 0
    THEN Some(ThresholdDecryptionResponse_deserialize(bytes))
    ELSE None

-----------------------------------------------------------------------------
(* Key fragments, capsule fragments, policy identifiers *)

\* tests/wasm.rs make_kfrags: generate_kfrags(.., 2, 3, ..)
KFragThreshold == 2

KFragShares == 3

\* share i of delegating key dsk re-encrypting for rsk, signed by the delegator
KeyFrag(dsk, rsk, i) ==
    [delegating |-> PublicKeyOf(dsk),
     receiving |-> PublicKeyOf(rsk),
     signer |-> PublicKeyOf(dsk),
     threshold |-> KFragThreshold,
     id |-> i]

make_kfrags(dsk, rsk) == [i \in 1 .. KFragShares |-> KeyFrag(dsk, rsk, i)]

KeyFrags == {KeyFrag(d, r, i) : d \in SecretKeys, r \in SecretKeys, i \in 1 .. KFragShares}

\* umbral reencrypt: the fragment remembers the capsule and the share it came from
reencrypt(capsule, kfrag) == [capsule |-> capsule, kfrag |-> kfrag]

Labels == {<<l>> : l \in 1 .. NLabels}

\* nucypher_core::HRAC::new: a digest of the two keys and the label
core_HRAC_new(publisher_verifying_key, bob_verifying_key, label) ==
    [kind |-> "HRAC",
     publisher |-> publisher_verifying_key, bob |-> bob_verifying_key, label |-> label]

HRAC_SIZE == 16

\* nucypher_core::HRAC as_ref: the digest, byte i of it standing for itself
core_HRAC_as_ref(hrac) ==
    [i \in 1 .. HRAC_SIZE |-> [byte |-> i, of |-> <<hrac.publisher, hrac.bob, hrac.label>>]]

\* a constructor that hashes the publisher's key twice
HRAC_new_one_key(publisher_verifying_key, bob_verifying_key, label) ==
    core_HRAC_new(publisher_verifying_key, publisher_verifying_key, label)

HRAC_new(publisher_verifying_key, bob_verifying_key, label) ==
    core_HRAC_new(publisher_verifying_key, bob_verifying_key, label)

HRAC_to_bytes(self) == core_HRAC_as_ref(self)

\* tests/wasm.rs make_hrac, one per label
make_hrac(label) == HRAC_new(PublicKeyOf(1), PublicKeyOf(NKeys), label)

HRACs == {make_hrac(l) : l \in Labels}

-----------------------------------------------------------------------------
(* Values crossing the JavaScript boundary *)

\* a Uint8Array holding the bytes of x (what is "capsule", "cfrag" or "garbage")
JsBytes(what, x) == [js |-> "Uint8Array", what |-> what, v |-> x]

\* the value JsValue::from_serde makes of x
JsSerde(what, x) == [js |-> "serde", what |-> what, v |-> x]

\* any other JavaScript value
JsOther == [js |-> "other", what |-> "garbage", v |-> NoArgs]

JsGarbageBytes == JsBytes("garbage", NoArgs)

Range(s) == {s[i] : i \in DOMAIN s}

js_value_to_u8_vec(array_of_uint8_arrays) ==
    LET vec_vec_u8 == SelectSeq(array_of_uint8_arrays, LAMBDA a : a.js = "Uint8Array")
    IN  IF Len(vec_vec_u8) # Len(array_of_uint8_arrays)
        THEN Err("Invalid Array of Uint8Arrays.")
        ELSE Ok(vec_vec_u8)

\* umbral Capsule::from_bytes
Capsule_from_bytes(bytes) ==
    IF bytes.what = "capsule" THEN Ok(bytes.v) ELSE Err("capsule")

\* umbral VerifiedCapsuleFrag::from_verified_bytes: no verification, only decoding
VerifiedCapsuleFrag_from_verified_bytes(bytes) ==
    IF bytes.what = "cfrag" THEN Ok(bytes.v) ELSE Err("cfrag")

\* JsValue::into_serde::<Capsule>
into_serde_Capsule(js) ==
    IF js.js = "serde" /\ js.what = "capsule" THEN Ok(js.v) ELSE Err("serde")

\* map_err(map_js_err) on a backend result
MapErr(r) == IF r.status = "err" THEN map_js_err(r.err) ELSE r

-----------------------------------------------------------------------------
(* MessageKit *)

core_MessageKit_new(policy_encrypting_key, plaintext, nonce) ==
    [kind |-> "MessageKit",
     capsule |-> Capsule(policy_encrypting_key, nonce),
     ciphertext |-> [sealed_by |-> Capsule(policy_encrypting_key, nonce),
                     plaintext |-> plaintext]]

core_MessageKit_decrypt(mk, sk) ==
    IF PublicKeyOf(sk) = mk.capsule.delegating /\ mk.ciphertext.sealed_by = mk.capsule
    THEN Ok(mk.ciphertext.plaintext)
    ELSE Err("CryptoError")

\* the fragments are of one policy and of distinct shares
ConsistentCFrags(cfrags) ==
    /\ \A i, j \in DOMAIN cfrags :
          /\ cfrags[i].kfrag.delegating = cfrags[j].kfrag.delegating
          /\ cfrags[i].kfrag.receiving = cfrags[j].kfrag.receiving
          /\ cfrags[i].kfrag.signer = cfrags[j].kfrag.signer
          /\ (i # j => cfrags[i].kfrag.id # cfrags[j].kfrag.id)

core_MessageKit_decrypt_reencrypted(mk, sk, policy_encrypting_key, cfrags) ==
    IF Len(cfrags) = 0 \/ Len(cfrags) < cfrags[1].kfrag.threshold
    THEN Err("InsufficientFragments")
    ELSE IF /\ ConsistentCFrags(cfrags)
            /\ \A i \in DOMAIN cfrags :
                  /\ cfrags[i].capsule = mk.capsule
                  /\ cfrags[i].kfrag.delegating = policy_encrypting_key
                  /\ cfrags[i].kfrag.receiving = PublicKeyOf(sk)
            /\ policy_encrypting_key = mk.capsule.delegating
            /\ mk.ciphertext.sealed_by = mk.capsule
         THEN Ok(mk.ciphertext.plaintext)
         ELSE Err("CryptoError")

MessageKit_new(policy_encrypting_key, plaintext, nonce) ==
    core_MessageKit_new(policy_encrypting_key, plaintext, nonce)

\* a wrapper that turns a failed decryption into an empty plaintext
MessageKit_decrypt_or_default(self, sk) ==
    LET r == core_MessageKit_decrypt(self, sk)
    IN  IF IsOk(r) THEN r ELSE Ok(<<>>)

MessageKit_decrypt(self, sk) == MapErr(core_MessageKit_decrypt(self, sk))

\* a wrapper that loses the last fragment on the way to the backend
MessageKit_decrypt_reencrypted_short(self, sk, policy_encrypting_key, cfrags) ==
    LET bytes == js_value_to_u8_vec(cfrags)
    IN  IF ~IsOk(bytes) THEN bytes
        ELSE IF \E i \in DOMAIN bytes.val :
                   ~IsOk(VerifiedCapsuleFrag_from_verified_bytes(bytes.val[i]))
             THEN Panic("Failed to deserialize VerifiedCapsuleFrag")
             ELSE LET backend_cfrags ==
                          [i \in 1 .. Len(bytes.val) - 1 |->
                              VerifiedCapsuleFrag_from_verified_bytes(bytes.val[i]).val]
                  IN  MapErr(core_MessageKit_decrypt_reencrypted(
                                 self, sk, policy_encrypting_key, backend_cfrags))

MessageKit_decrypt_reencrypted(self, sk, policy_encrypting_key, cfrags) ==
    LET bytes == js_value_to_u8_vec(cfrags)
    IN  IF ~IsOk(bytes) THEN bytes
        ELSE IF \E i \in DOMAIN bytes.val :
                   ~IsOk(VerifiedCapsuleFrag_from_verified_bytes(bytes.val[i]))
             THEN Panic("Failed to deserialize VerifiedCapsuleFrag")
             ELSE LET backend_cfrags ==
                          [i \in DOMAIN bytes.val |->
                              VerifiedCapsuleFrag_from_verified_bytes(bytes.val[i]).val]
                  IN  MapErr(core_MessageKit_decrypt_reencrypted(
                                 self, sk, policy_encrypting_key, backend_cfrags))

MessageKit_capsule(self) == self.capsule

-----------------------------------------------------------------------------
(* EncryptedKeyFrag *)

core_EncryptedKeyFrag_new(signer, recipient_key, hrac, verified_kfrag) ==
    [kind |-> "EncryptedKeyFrag",
     recipient |-> recipient_key,
     hrac |-> hrac,
     signed_by |-> verifying_key(signer),
     kfrag |-> verified_kfrag]

core_EncryptedKeyFrag_decrypt(ekfrag, sk, hrac, publisher_verifying_key) ==
    IF PublicKeyOf(sk) # ekfrag.recipient THEN Err("CryptoError")
    ELSE IF ekfrag.hrac # hrac THEN Err("CryptoError")
    ELSE IF ekfrag.signed_by # publisher_verifying_key THEN Err("CryptoError")
    ELSE Ok(ekfrag.kfrag)

EncryptedKeyFrag_new(signer, recipient_key, hrac, verified_kfrag) ==
    core_EncryptedKeyFrag_new(signer, recipient_key, hrac, verified_kfrag)

\* a wrapper that hands the backend the fragment's own hrac, not the caller's
EncryptedKeyFrag_decrypt_own_hrac(self, sk, hrac, publisher_verifying_key) ==
    MapErr(core_EncryptedKeyFrag_decrypt(self, sk, self.hrac, publisher_verifying_key))

EncryptedKeyFrag_decrypt(self, sk, hrac, publisher_verifying_key) ==
    MapErr(core_EncryptedKeyFrag_decrypt(self, sk, hrac, publisher_verifying_key))

-----------------------------------------------------------------------------
(* Address *)

AddressSize == 20

\* tests/wasm.rs: the string "0000000000000000000<i>" as bytes
Addr(i) == [j \in 1 .. AddressSize |-> IF j = AddressSize THEN 48 + i ELSE 48]

\* a string that is no address
ShortAddr == <<48, 49>>

\* a string one byte too long to be an address
LongAddr == Addr(1) \o <<48>>

\* nucypher_core::Address::from_slice
Address_from_slice(bytes) ==
    IF Len(bytes) = AddressSize THEN Some(bytes) ELSE None

\* a factory that takes any slice for an address
try_make_address_unchecked(address_bytes) == Ok(address_bytes)

try_make_address(address_bytes) ==
    LET addr == Address_from_slice(address_bytes)
    IN  IF addr.some THEN Ok(addr.v) ELSE Err("Invalid address")

\* byte-wise lexicographic order, the order of String and of Address
RECURSIVE LexLess(_, _)
LexLess(a, b) ==
    IF b = <<>> THEN FALSE
    ELSE IF a = <<>> THEN TRUE
    ELSE IF Head(a) # Head(b) THEN Head(a) < Head(b)
    ELSE LexLess(Tail(a), Tail(b))

\* insert entry e into a sequence kept ascending by .address; an equal key is replaced
RECURSIVE BTreeMap_insert(_, _)
BTreeMap_insert(m, e) ==
    IF m = <<>> THEN <<e>>
    ELSE IF Head(m).address = e.address THEN <<e>> \o Tail(m)
    ELSE IF LexLess(e.address, Head(m).address) THEN <<e>> \o m
    ELSE <<Head(m)>> \o BTreeMap_insert(Tail(m), e)

\* collect entries into a BTreeMap keyed by .address
RECURSIVE BTreeMap_collect(_, _)
BTreeMap_collect(entries, m) ==
    IF entries = <<>> THEN m
    ELSE BTreeMap_collect(Tail(entries), BTreeMap_insert(m, Head(entries)))

-----------------------------------------------------------------------------
(* TreasureMap and EncryptedTreasureMap *)

\* a JavaScript map from address strings to (key, kfrag), in insertion order
JsMap(entries) == [js |-> "map", entries |-> entries]

JsNotAMap == [js |-> "other", entries |-> <<>>]

\* nucypher_core::TreasureMap::new returns Self: a violated precondition panics
core_TreasureMap_new(signer, hrac, policy_encrypting_key, assigned_kfrags, threshold) ==
    IF threshold > Len(assigned_kfrags)
    THEN Panic("PolicyError")
    ELSE Ok([kind |-> "TreasureMap",
             threshold |-> threshold,
             hrac |-> hrac,
             policy_encrypting_key |-> policy_encrypting_key,
             publisher_verifying_key |-> verifying_key(signer),
             destinations |->
                 BTreeMap_collect(
                     [i \in DOMAIN assigned_kfrags |->
                         [address |-> assigned_kfrags[i].address,
                          ekfrag |-> core_EncryptedKeyFrag_new(
                                         signer, assigned_kfrags[i].key,
                                         hrac, assigned_kfrags[i].kfrag)]],
                     <<>>)])

core_TreasureMap_encrypt(tm, signer, recipient_key) ==
    [kind |-> "EncryptedTreasureMap",
     recipient |-> recipient_key,
     signed_by |-> verifying_key(signer),
     treasure_map |-> tm]

core_EncryptedTreasureMap_decrypt(etm, sk, publisher_verifying_key) ==
    IF PublicKeyOf(sk) # etm.recipient THEN Err("CryptoError")
    ELSE IF etm.signed_by # publisher_verifying_key THEN Err("CryptoError")
    ELSE Ok(etm.treasure_map)

TreasureMap_new(signer, hrac, policy_encrypting_key, assigned_kfrags, threshold) ==
    IF assigned_kfrags.js # "map" THEN Err("serde")
    ELSE LET map == BTreeMap_collect(assigned_kfrags.entries, <<>>)
         IN  IF \E i \in DOMAIN map : ~IsOk(try_make_address(map[i].address))
             THEN Panic("unwrap")
             ELSE LET assigned_kfrags_backend ==
                          [i \in DOMAIN map |->
                              [address |-> try_make_address(map[i].address).val,
                               key |-> map[i].key,
                               kfrag |-> map[i].kfrag]]
                  IN  core_TreasureMap_new(signer, hrac, policy_encrypting_key,
                                           assigned_kfrags_backend, threshold)

\* a wrapper that encrypts for the signer's own key
TreasureMap_encrypt_for_signer(self, signer, recipient_key) ==
    core_TreasureMap_encrypt(self, signer, verifying_key(signer))

TreasureMap_encrypt(self, signer, recipient_key) ==
    core_TreasureMap_encrypt(self, signer, recipient_key)

\* a getter that walks the map from its last entry to its first
TreasureMap_destinations_reversed(self) ==
    Ok([i \in DOMAIN self.destinations |->
           <<self.destinations[Len(self.destinations) + 1 - i].address,
             self.destinations[Len(self.destinations) + 1 - i].ekfrag>>])

TreasureMap_destinations(self) ==
    Ok([i \in DOMAIN self.destinations |->
           <<self.destinations[i].address, self.destinations[i].ekfrag>>])

EncryptedTreasureMap_decrypt(self, sk, publisher_verifying_key) ==
    MapErr(core_EncryptedTreasureMap_decrypt(self, sk, publisher_verifying_key))

-----------------------------------------------------------------------------
(* ReencryptionResponse *)

\* nucypher_core::ReencryptionResponse::new returns Self: a violated
\* precondition panics.  The signature covers the capsules and the fragments.
core_ReencryptionResponse_new(signer, capsules, vcfrags) ==
    IF Len(capsules) # Len(vcfrags)
    THEN Panic("length mismatch")
    ELSE Ok([kind |-> "ReencryptionResponse",
             signed_by |-> verifying_key(signer),
             capsules |-> capsules,
             cfrags |-> vcfrags])

\* one fragment against its capsule and the keys of the policy
CFragVerifies(cfrag, capsule, verifying_pk, delegating_pk, receiving_pk) ==
    /\ cfrag.capsule = capsule
    /\ cfrag.kfrag.signer = verifying_pk
    /\ cfrag.kfrag.delegating = delegating_pk
    /\ cfrag.kfrag.receiving = receiving_pk

core_ReencryptionResponse_verify(resp, capsules, alice_verifying_key, ursula_verifying_key, policy_encrypting_key, bob_encrypting_key) ==
    IF /\ Len(capsules) = Len(resp.cfrags)
       /\ resp.signed_by = ursula_verifying_key
       /\ resp.capsules = capsules
       /\ \A i \in DOMAIN resp.cfrags :
             CFragVerifies(resp.cfrags[i], capsules[i], alice_verifying_key,
                           policy_encrypting_key, bob_encrypting_key)
    THEN Ok(resp.cfrags)
    ELSE Err("CryptoError")

ReencryptionResponse_new(signer, capsules, verified_capsule_frags) ==
    LET cs == js_value_to_u8_vec(capsules)
    IN  IF ~IsOk(cs) THEN cs
        ELSE IF \E i \in DOMAIN cs.val : ~IsOk(Capsule_from_bytes(cs.val[i]))
        THEN Panic("unwrap")
        ELSE LET fs == js_value_to_u8_vec(verified_capsule_frags)
             IN  IF ~IsOk(fs) THEN fs
                 ELSE IF \E i \in DOMAIN fs.val :
                            ~IsOk(VerifiedCapsuleFrag_from_verified_bytes(fs.val[i]))
                 THEN Panic("unwrap")
                 ELSE core_ReencryptionResponse_new(
                          signer,
                          [i \in DOMAIN cs.val |-> Capsule_from_bytes(cs.val[i]).val],
                          [i \in DOMAIN fs.val |->
                              VerifiedCapsuleFrag_from_verified_bytes(fs.val[i]).val])

\* a verify that hands the fragments back last first
ReencryptionResponse_verify_reversed(self, capsules, alice_verifying_key, ursula_verifying_key, policy_encrypting_key, bob_encrypting_key) ==
    IF \E i \in DOMAIN capsules : ~IsOk(into_serde_Capsule(capsules[i]))
    THEN Panic("unwrap")
    ELSE LET vcfrags_backend ==
                 core_ReencryptionResponse_verify(
                     self, [i \in DOMAIN capsules |-> into_serde_Capsule(capsules[i]).val],
                     alice_verifying_key, ursula_verifying_key, policy_encrypting_key,
                     bob_encrypting_key)
         IN  IF ~IsOk(vcfrags_backend) THEN Panic("unwrap")
             ELSE Ok([i \in DOMAIN vcfrags_backend.val |->
                         JsSerde("cfrag",
                                 vcfrags_backend.val[Len(vcfrags_backend.val) + 1 - i])])

ReencryptionResponse_verify(self, capsules, alice_verifying_key, ursula_verifying_key, policy_encrypting_key, bob_encrypting_key) ==
    IF \E i \in DOMAIN capsules : ~IsOk(into_serde_Capsule(capsules[i]))
    THEN Panic("unwrap")
    ELSE LET capsules_backend ==
                 [i \in DOMAIN capsules |-> into_serde_Capsule(capsules[i]).val]
             vcfrags_backend ==
                 core_ReencryptionResponse_verify(
                     self, capsules_backend, alice_verifying_key,
                     ursula_verifying_key, policy_encrypting_key, bob_encrypting_key)
         IN  IF ~IsOk(vcfrags_backend) THEN Panic("unwrap")
             ELSE Ok([i \in DOMAIN vcfrags_backend.val |->
                         JsSerde("cfrag", vcfrags_backend.val[i])])

-----------------------------------------------------------------------------
(* NodeMetadataPayload, NodeMetadata, FleetStateChecksum *)

NodeMetadataPayload_new(canonical_address, domain, timestamp_epoch, verifying_pk, encrypting_key, certificate_bytes, host, port, decentralized_identity_evidence) ==
    LET address == try_make_address(canonical_address)
    IN  IF ~IsOk(address) THEN address
        ELSE Ok([kind |-> "NodeMetadataPayload",
                 canonical_address |-> address.val,
                 domain |-> domain,
                 timestamp_epoch |-> timestamp_epoch,
                 verifying_key |-> verifying_pk,
                 encrypting_key |-> encrypting_key,
                 certificate_bytes |-> certificate_bytes,
                 host |-> host,
                 port |-> port,
                 decentralized_identity_evidence |-> decentralized_identity_evidence])

\* nucypher_core::NodeMetadata::new: the signer signs the payload
core_NodeMetadata_new(signer, payload) ==
    [kind |-> "NodeMetadata", payload |-> payload, signed_by |-> verifying_key(signer)]

\* nucypher_core::NodeMetadata::verify: the signature against the payload's own key
core_NodeMetadata_verify(node) == node.signed_by = node.payload.verifying_key

NodeMetadata_new(signer, payload) == core_NodeMetadata_new(signer, payload)

\* a check that never fails
NodeMetadata_verify_any(self) == Ok(TRUE)

NodeMetadata_verify(self) == Ok(core_NodeMetadata_verify(self))

NodeMetadata_payload(self) == Ok(self.payload)

\* a JavaScript array of values made by serde_wasm_bindgen::to_value
JsArray(items) == [js |-> "array", items |-> items]

\* a JavaScript value that is no such array
JsNotAnArray == [js |-> "other", items |-> <<>>]

\* put node e into a sequence ordered by canonical address: after every node whose
\* address is not greater.  The comparison sees the address and nothing else.
RECURSIVE InsertByAddress(_, _)
InsertByAddress(m, e) ==
    IF m = <<>> THEN <<e>>
    ELSE IF LexLess(e.payload.canonical_address, Head(m).payload.canonical_address)
    THEN <<e>> \o m
    ELSE <<Head(m)>> \o InsertByAddress(Tail(m), e)

RECURSIVE SortByAddress(_, _)
SortByAddress(nodes, m) ==
    IF nodes = <<>> THEN m
    ELSE SortByAddress(Tail(nodes), InsertByAddress(m, Head(nodes)))

\* the hash of a sequence of node records, collision-free
Digest(nodes) == [digest_of |-> nodes]

\* nucypher_core::FleetStateChecksum::from_nodes: the peers and then this node,
\* sorted by address, hashed in that order
core_FleetStateChecksum_from_nodes(this_node, other_nodes) ==
    LET nodes == other_nodes \o (IF this_node.some THEN <<this_node.v>> ELSE <<>>)
    IN  [kind |-> "FleetStateChecksum", checksum |-> Digest(SortByAddress(nodes, <<>>))]

FleetStateChecksum_new(this_node, other_nodes) ==
    IF other_nodes.js # "array" THEN Err("serde")
    ELSE Ok(core_FleetStateChecksum_from_nodes(this_node, other_nodes.items))

FleetStateChecksum_to_bytes(self) == Ok(self.checksum)

-----------------------------------------------------------------------------
(* MetadataResponsePayload and MetadataResponse *)

core_MetadataResponsePayload_new(timestamp_epoch, announce_nodes) ==
    [kind |-> "MetadataResponsePayload",
     timestamp_epoch |-> timestamp_epoch,
     announce_nodes |-> announce_nodes]

MetadataResponsePayload_new(timestamp_epoch, announce_nodes) ==
    IF announce_nodes.js # "array" THEN Panic("unwrap")
    ELSE Ok(core_MetadataResponsePayload_new(timestamp_epoch, announce_nodes.items))

MetadataResponsePayload_timestamp_epoch(self) == Ok(self.timestamp_epoch)

\* the value JsValue::from makes of an exported object
JsObject(x) == [js |-> "object", what |-> x.kind, v |-> x]

MetadataResponsePayload_announce_nodes(self) ==
    Ok([i \in DOMAIN self.announce_nodes |-> JsObject(self.announce_nodes[i])])

\* nucypher_core::MetadataResponse::new: the signer signs the payload
core_MetadataResponse_new(signer, payload) ==
    [kind |-> "MetadataResponse", signed_by |-> verifying_key(signer), payload |-> payload]

\* nucypher_core::MetadataResponse::verify: the payload, if the key is the signer's
core_MetadataResponse_verify(response, verifying_pk) ==
    IF response.signed_by = verifying_pk THEN Some(response.payload) ELSE None

MetadataResponse_new(signer, response) == core_MetadataResponse_new(signer, response)

\* a verify that hands the payload out whatever the key
MetadataResponse_verify_unchecked(self, verifying_pk) == Ok(self.payload)

MetadataResponse_verify(self, verifying_pk) ==
    LET verified == core_MetadataResponse_verify(self, verifying_pk)
    IN  IF verified.some THEN Ok(verified.v) ELSE map_js_err("Invalid signature")

-----------------------------------------------------------------------------
(* RevocationOrder *)

\* nucypher_core::RevocationOrder::new: the signer signs the address and the fragment
core_RevocationOrder_new(signer, ursula_address, encrypted_kfrag) ==
    [kind |-> "RevocationOrder",
     ursula_address |-> ursula_address,
     encrypted_kfrag |-> encrypted_kfrag,
     signed_by |-> verifying_key(signer)]

core_RevocationOrder_verify_signature(order, alice_verifying_key) ==
    order.signed_by = alice_verifying_key

RevocationOrder_new(signer, ursula_address, encrypted_kfrag) ==
    LET address == try_make_address(ursula_address)
    IN  IF ~IsOk(address) THEN address
        ELSE Ok(core_RevocationOrder_new(signer, address.val, encrypted_kfrag))

\* a check that accepts every key
RevocationOrder_verify_signature_any(self, alice_verifying_key) == Ok(TRUE)

RevocationOrder_verify_signature(self, alice_verifying_key) ==
    Ok(core_RevocationOrder_verify_signature(self, alice_verifying_key))

-----------------------------------------------------------------------------
(* RetrievalKit *)

\* nucypher_core::RetrievalKit::new: the capsule and the set of addresses asked so far
core_RetrievalKit_new(capsule, queried_addresses) ==
    LET set == BTreeMap_collect([i \in DOMAIN queried_addresses |->
                                    [address |-> queried_addresses[i]]], <<>>)
    IN  [kind |-> "RetrievalKit",
         capsule |-> capsule,
         queried_addresses |-> [i \in DOMAIN set |-> set[i].address]]

core_RetrievalKit_from_message_kit(message_kit) ==
    core_RetrievalKit_new(message_kit.capsule, <<>>)

\* a kit that starts out with an address already asked
RetrievalKit_from_message_kit_asked(message_kit) ==
    core_RetrievalKit_new(message_kit.capsule, <<Addr(1)>>)

RetrievalKit_from_message_kit(message_kit) ==
    core_RetrievalKit_from_message_kit(message_kit)

\* a constructor that keeps the list of addresses as it was given
RetrievalKit_new_as_listed(capsule, queried_addresses) ==
    IF queried_addresses.js # "array" THEN Err("serde")
    ELSE IF \E i \in DOMAIN queried_addresses.items :
               ~IsOk(try_make_address(queried_addresses.items[i]))
    THEN Panic("unwrap")
    ELSE Ok([kind |-> "RetrievalKit",
             capsule |-> capsule,
             queried_addresses |-> queried_addresses.items])

RetrievalKit_new(capsule, queried_addresses) ==
    IF queried_addresses.js # "array" THEN Err("serde")
    ELSE LET addresses == queried_addresses.items
         IN  IF \E i \in DOMAIN addresses : ~IsOk(try_make_address(addresses[i]))
             THEN Panic("unwrap")
             ELSE Ok(core_RetrievalKit_new(
                         capsule,
                         [i \in DOMAIN addresses |-> try_make_address(addresses[i]).val]))

RetrievalKit_capsule(self) == self.capsule

RetrievalKit_queried_addresses(self) ==
    [i \in DOMAIN self.queried_addresses |-> JsSerde("address", self.queried_addresses[i])]

-----------------------------------------------------------------------------
(* ReencryptionRequest *)

\* nucypher_core::ReencryptionRequest::new returns Self: it keeps what it is given
core_ReencryptionRequest_new(capsules, hrac, encrypted_kfrag, publisher_verifying_key, bob_verifying_key) ==
    [kind |-> "ReencryptionRequest",
     capsules |-> capsules,
     hrac |-> hrac,
     encrypted_kfrag |-> encrypted_kfrag,
     publisher_verifying_key |-> publisher_verifying_key,
     bob_verifying_key |-> bob_verifying_key]

ReencryptionRequest_new(capsules, hrac, encrypted_kfrag, publisher_verifying_key, bob_verifying_key) ==
    LET cs == js_value_to_u8_vec(capsules)
    IN  IF ~IsOk(cs) THEN cs
        ELSE IF \E i \in DOMAIN cs.val : ~IsOk(Capsule_from_bytes(cs.val[i]))
        THEN Panic("unwrap")
        ELSE Ok(core_ReencryptionRequest_new(
                    [i \in DOMAIN cs.val |-> Capsule_from_bytes(cs.val[i]).val],
                    hrac, encrypted_kfrag, publisher_verifying_key, bob_verifying_key))

-----------------------------------------------------------------------------
(* MetadataRequest *)

\* nucypher_core::MetadataRequest::new: the checksum and the nodes, as given
core_MetadataRequest_new(fleet_state_checksum, announce_nodes) ==
    [kind |-> "MetadataRequest",
     fleet_state_checksum |-> fleet_state_checksum,
     announce_nodes |-> announce_nodes]

MetadataRequest_new(fleet_state_checksum, announce_nodes) ==
    IF announce_nodes.js # "array" THEN Err("serde")
    ELSE Ok(core_MetadataRequest_new(fleet_state_checksum, announce_nodes.items))

MetadataRequest_fleet_state_checksum(self) == Ok(self.fleet_state_checksum)

\* a getter that lists the nodes last first
MetadataRequest_announce_nodes_reversed(self) ==
    Ok([i \in DOMAIN self.announce_nodes |->
           JsObject(self.announce_nodes[Len(self.announce_nodes) + 1 - i])])

MetadataRequest_announce_nodes(self) ==
    Ok([i \in DOMAIN self.announce_nodes |-> JsObject(self.announce_nodes[i])])

-----------------------------------------------------------------------------
(* The versioned envelope: brand(4) | major(u16 LE) | minor(u16 LE) | payload *)

DkgKinds == {"ThresholdDecryptionRequest", "ThresholdDecryptionResponse"}

\* the message types built in lib.rs; their payload bytes are kept symbolic
CoreKinds == {"MessageKit", "EncryptedKeyFrag", "TreasureMap", "EncryptedTreasureMap",
              "ReencryptionRequest", "ReencryptionResponse", "RetrievalKit",
              "RevocationOrder", "NodeMetadata", "MetadataRequest",
              "MetadataResponse"}

Kinds == DkgKinds \cup CoreKinds

brand(T) ==
    CASE T = "ThresholdDecryptionRequest" -> ThresholdDecryptionRequest_brand
      [] T = "ThresholdDecryptionResponse" -> ThresholdDecryptionResponse_brand
      [] T = "MessageKit" -> <<77, 75, 105, 116>>
      [] T = "EncryptedKeyFrag" -> <<69, 75, 70, 114>>
      [] T = "TreasureMap" -> <<84, 77, 97, 112>>
      [] T = "EncryptedTreasureMap" -> <<69, 77, 97, 112>>
      [] T = "ReencryptionResponse" -> <<82, 101, 82, 115>>
      [] T = "ReencryptionRequest" -> <<82, 101, 82, 113>>
      [] T = "RetrievalKit" -> <<82, 75, 105, 116>>
      [] T = "RevocationOrder" -> <<82, 101, 118, 111>>
      [] T = "NodeMetadata" -> <<78, 100, 77, 100>>
      [] T = "MetadataRequest" -> <<77, 100, 82, 113>>
      [] T = "MetadataResponse" -> <<77, 100, 82, 115>>

version(T) ==
    CASE T = "ThresholdDecryptionRequest" -> ThresholdDecryptionRequest_version
      [] T = "ThresholdDecryptionResponse" -> ThresholdDecryptionResponse_version
      [] OTHER -> <<1, 0>>

\* the MessagePack bytes of a lib.rs object, as one symbolic block
Packed(x) == [msgpack |-> x]

unversioned_to_bytes(x) ==
    CASE x.kind = "ThresholdDecryptionRequest" ->
             ThresholdDecryptionRequest_unversioned_to_bytes(x)
      [] x.kind = "ThresholdDecryptionResponse" ->
             ThresholdDecryptionResponse_unversioned_to_bytes(x)
      [] OTHER -> <<Packed(x)>>

unversioned_from_bytes(T, minor_version, bytes) ==
    CASE T = "ThresholdDecryptionRequest" ->
             ThresholdDecryptionRequest_unversioned_from_bytes(minor_version, bytes)
      [] T = "ThresholdDecryptionResponse" ->
             ThresholdDecryptionResponse_unversioned_from_bytes(minor_version, bytes)
      [] OTHER ->
             IF minor_version <= version(T)[2]
             THEN Some(IF Len(bytes) = 1 /\ bytes[1].msgpack.kind = T
                       THEN Ok(bytes[1].msgpack)
                       ELSE Err("FieldError"))
             ELSE None

u16_le(n) == <<n % 256, n \div 256>>

from_u16_le(b) == b[1] + 256 * b[2]

\* versioning.rs ProtocolObject::to_bytes
ProtocolObject_to_bytes(x) ==
    brand(x.kind) \o u16_le(version(x.kind)[1]) \o u16_le(version(x.kind)[2])
    \o unversioned_to_bytes(x)

\* versioning.rs ProtocolObject::from_bytes
ProtocolObject_from_bytes(T, bytes) ==
    IF Len(bytes) < 4 \/ SubSeq(bytes, 1, 4) # brand(T) THEN Err("FormatError")
    ELSE IF Len(bytes) < 6 THEN Err("FormatError")
    ELSE IF from_u16_le(SubSeq(bytes, 5, 6)) # version(T)[1] THEN Err("VersionError")
    ELSE IF Len(bytes) < 8 THEN Err("FormatError")
    ELSE LET parsed == unversioned_from_bytes(
                           T, from_u16_le(SubSeq(bytes, 7, 8)), Drop(bytes, 8))
         IN  IF ~parsed.some THEN Err("VersionError") ELSE parsed.v

\* lib.rs to_bytes
to_bytes(self) == ProtocolObject_to_bytes(self)

\* lib.rs from_bytes
from_bytes(T, bytes) == MapErr(ProtocolObject_from_bytes(T, bytes))

-----------------------------------------------------------------------------
(* Inputs the caller draws from *)

OtherKey(k) == (k % NKeys) + 1

OtherNonce(n) == (n % NNonces) + 1

OtherCapsule(c) == Capsule(c.delegating, OtherNonce(c.nonce))

ShareId(i) == ((i - 1) % KFragShares) + 1

\* the secret key behind a public key
Owner(pk) == pk.pk

\* the i-th capsule of a batch encrypted for pk
BatchCapsule(pk, i) == Capsule(pk, ((i - 1) % NNonces) + 1)

\* what a proxy holding share i returns for the capsule
GoodCFrag(capsule, rsk, i) ==
    reencrypt(capsule, KeyFrag(Owner(capsule.delegating), rsk, ShareId(i)))

\* values that may stand in the place of the i-th fragment instead of it
DeviantCFrags(capsule, rsk, i) ==
    {JsBytes("cfrag", reencrypt(OtherCapsule(capsule),
                                KeyFrag(Owner(capsule.delegating), rsk, ShareId(i)))),
     JsBytes("cfrag", reencrypt(capsule,
                                KeyFrag(OtherKey(Owner(capsule.delegating)), rsk, ShareId(i)))),
     JsBytes("cfrag", reencrypt(capsule,
                                KeyFrag(Owner(capsule.delegating), OtherKey(rsk), ShareId(i)))),
     JsBytes("cfrag", GoodCFrag(capsule, rsk, i + 1)),
     JsGarbageBytes,
     JsOther}

\* lists of n fragments for the capsules caps, as Uint8Arrays: all good, or one deviant
CFragLists(caps, rsk) ==
    LET good == [i \in DOMAIN caps |-> JsBytes("cfrag", GoodCFrag(caps[i], rsk, i))]
    IN  {good} \cup
        UNION {{[good EXCEPT ![p] = d] : d \in DeviantCFrags(caps[p], rsk, p)}
               : p \in DOMAIN caps}

\* one entry of a treasure map assignment: node k's address, key and share
Assignment(dsk, k) ==
    [address |-> Addr(k),
     key |-> PublicKeyOf(((k - 1) % NKeys) + 1),
     kfrag |-> KeyFrag(dsk, 1, ShareId(k))]

\* the assignments of nodes 1..n in any order, possibly with one address malformed
AssignedKFragsOf(dsk, n) ==
    UNION {
      LET good == [i \in 1 .. n |-> Assignment(dsk, perm[i])]
      IN  {JsMap(good)} \cup
          {JsMap([good EXCEPT ![p].address = ShortAddr]) : p \in 1 .. n}
      : perm \in Permutations(1 .. n)}

AssignedKFrags(dsk) ==
    {JsNotAMap} \cup UNION {AssignedKFragsOf(dsk, n) : n \in 0 .. MaxList}

ByteStrings == {<<>>, <<7>>, <<1, 200>>}

RitualIds == {0, 200, 300}

OptStrings == {None, Some(<<99>>)}

\* one byte changed in flight: q and s swap (ThRq/ThRs), any other byte goes up by one
Flip(b) == IF b = 113 THEN 115 ELSE IF b = 115 THEN 113 ELSE (b + 1) % 256

Min(a, b) == IF a < b THEN a ELSE b

\* the bytes as sent, with one header byte changed, or cut short
Received(bytes) ==
    {bytes}
    \cup {[bytes EXCEPT ![i] = Flip(bytes[i])] : i \in 1 .. Min(8, Len(bytes))}
    \cup {SubSeq(bytes, 1, n) : n \in 0 .. Min(TamperSpan, Len(bytes)) - 1}

\* tests/wasm.rs make_node_metadata: the payload of the node at address a with key k
NodePayload(a, k) ==
    NodeMetadataPayload_new(a, "localhost", 1546300800, PublicKeyOf(k), PublicKeyOf(k),
                            <<99>>, "https://localhost.com", 443, Some(<<1, 2, 3>>))

\* the announcement of the node at address Addr(a) with key k, signed with key s
Node(a, k, s) == NodeMetadata_new(Signer(s), NodePayload(Addr(a), k).val)

\* the self-signed announcements in circulation: two addresses, every key
FleetNodes == {Node(a, k, k) : a \in 1 .. 2, k \in SecretKeys}

\* the sequences of distinct elements of S of length at most n
RECURSIVE SeqsWithoutRepeats(_, _)
SeqsWithoutRepeats(S, n) ==
    IF n = 0 THEN {<<>>}
    ELSE LET shorter == SeqsWithoutRepeats(S, n - 1)
         IN  shorter \cup
             UNION {{Append(q, x) : x \in S \ Range(q)}
                    : q \in {r \in shorter : Len(r) = n - 1}}

\* the orderings of a sequence
Orderings(q) == {[i \in DOMAIN q |-> q[p[i]]] : p \in Permutations(DOMAIN q)}

\* the address lists handed to RetrievalKit.new
AddressLists == UNION {[1 .. n -> {Addr(1), Addr(2), ShortAddr}] : n \in 0 .. 2}

\* the capsule lists a retriever may pass to ReencryptionRequest::new: none, one or two
\* capsules of a policy, or one that is not a capsule
RequestCapsules(pk) ==
    {[i \in 1 .. n |-> JsBytes("capsule", BatchCapsule(pk, i))] : n \in 0 .. 2}
    \cup {<<JsGarbageBytes>>, <<JsOther>>}

\* the lists of nodes a request may announce: up to two nodes, repeats included
AnnounceLists == UNION {[1 .. n -> FleetNodes] : n \in 0 .. 2}

\* the checksums a request may carry (tests/wasm.rs make_fleet_state_checksum), here
\* those of a fleet of one other node
FleetStateChecksums == {FleetStateChecksum_new(None, JsArray(<<n>>)).val : n \in FleetNodes}

-----------------------------------------------------------------------------
(* The caller's state machine *)

Init ==
    /\ obj = NoObject
    /\ made = NoArgs
    /\ data = <<>>
    /\ op = "init"
    /\ inp = NoArgs
    /\ res = Ok(NoVal)
    /\ arg = NoObject

Constructors ==
    {"MessageKit.new", "EncryptedKeyFrag.new", "TreasureMap.new", "TreasureMap.encrypt",
     "ReencryptionResponse.new", "ThresholdDecryptionRequest.new",
     "ThresholdDecryptionResponse.new",
     "NodeMetadataPayload.new", "NodeMetadata.new", "FleetStateChecksum.new",
     "MetadataResponsePayload.new", "MetadataResponse.new", "RevocationOrder.new",
     "HRAC.new", "RetrievalKit.from_message_kit", "RetrievalKit.new",
     "ReencryptionRequest.new",
     "MetadataRequest.new"}

\* the caller holds nothing and starts afresh
Idle == obj = NoObject /\ op \in {"init", "free"}

\* a reference that takes the object away, as a by-value argument does
ByRef_moved(x) == NoObject

\* an argument passed as &T: the caller's object is as it was
ByRef(x) == x

\* an argument passed as T: the object moves into the call and the caller's handle
\* is left empty
ByValue(x) == NoObject

\* a constructor call ended with r: the caller holds the object, or nothing, and
\* kept is what the call left of the object passed to it
ConstructedFrom(name, args, r, kept) ==
    /\ op' = name
    /\ inp' = args
    /\ made' = args
    /\ res' = r
    /\ obj' = IF IsOk(r) THEN r.val ELSE NoObject
    /\ data' = <<>>
    /\ arg' = kept

\* a constructor call whose arguments are keys and plain values ended with r
Constructed(name, args, r) == ConstructedFrom(name, args, r, NoObject)

\* the last call made or serialized the held object.  A call on the object leaves
\* obj, made and data as they are, so the state a call ends in does not depend on the
\* calls before it: every call is started from the state the constructor or the
\* serializer left.
AtRest == op \in Constructors \cup {"to_bytes"}

\* a call on the held object ended with r; the object is not touched
Called(name, args, r) ==
    /\ op' = name
    /\ inp' = args
    /\ res' = r
    /\ UNCHANGED <<obj, made, data, arg>>

DoMessageKitNew ==
    /\ Idle
    /\ \E sk \in SecretKeys, plaintext \in Plaintexts, nonce \in Nonces :
           Constructed("MessageKit.new",
                       [policy_encrypting_key |-> PublicKeyOf(sk), plaintext |-> plaintext],
                       Ok(MessageKit_new(PublicKeyOf(sk), plaintext, nonce)))

DoMessageKitDecrypt ==
    /\ AtRest
    /\ obj.kind = "MessageKit"
    /\ \E sk \in SecretKeys :
          Called("MessageKit.decrypt", [sk |-> sk], MessageKit_decrypt(obj, sk))

DoMessageKitDecryptReencrypted ==
    /\ AtRest
    /\ obj.kind = "MessageKit"
    /\ \E sk \in SecretKeys, pk \in PublicKeys, rsk \in SecretKeys, n \in 0 .. MaxList :
          \E cfrags \in CFragLists([i \in 1 .. n |-> obj.capsule], rsk) :
              Called("MessageKit.decrypt_reencrypted",
                     [sk |-> sk, policy_encrypting_key |-> pk, cfrags |-> cfrags],
                     MessageKit_decrypt_reencrypted(obj, sk, pk, cfrags))

DoEncryptedKeyFragNew ==
    /\ Idle
    /\ \E ssk \in SecretKeys, rsk \in SecretKeys, hrac \in HRACs, i \in 1 .. KFragShares :
           Constructed("EncryptedKeyFrag.new",
                       [signer |-> Signer(ssk), recipient_key |-> PublicKeyOf(rsk),
                        hrac |-> hrac, verified_kfrag |-> KeyFrag(ssk, rsk, i)],
                       Ok(EncryptedKeyFrag_new(Signer(ssk), PublicKeyOf(rsk), hrac,
                                               KeyFrag(ssk, rsk, i))))

DoEncryptedKeyFragDecrypt ==
    /\ AtRest
    /\ obj.kind = "EncryptedKeyFrag"
    /\ \E sk \in SecretKeys, hrac \in HRACs, pk \in PublicKeys :
          Called("EncryptedKeyFrag.decrypt",
                 [sk |-> sk, hrac |-> hrac, publisher_verifying_key |-> pk],
                 EncryptedKeyFrag_decrypt(obj, sk, hrac, pk))

DoTreasureMapNew ==
    /\ Idle
    /\ \E ssk \in SecretKeys, threshold \in 0 .. MaxList + 1 :
           \E assigned \in AssignedKFrags(ssk) :
               Constructed("TreasureMap.new",
                           [signer |-> Signer(ssk), hrac |-> make_hrac(<<1>>),
                            policy_encrypting_key |-> PublicKeyOf(ssk),
                            assigned_kfrags |-> assigned, threshold |-> threshold],
                           TreasureMap_new(Signer(ssk), make_hrac(<<1>>), PublicKeyOf(ssk),
                                           assigned, threshold))

DoTreasureMapDestinations ==
    /\ AtRest
    /\ obj.kind = "TreasureMap"
    /\ Called("TreasureMap.destinations", NoArgs, TreasureMap_destinations(obj))

DoTreasureMapEncrypt ==
    /\ AtRest
    /\ obj.kind = "TreasureMap"
    /\ \E ssk \in SecretKeys, rsk \in SecretKeys :
          Constructed("TreasureMap.encrypt",
                      [treasure_map |-> obj, signer |-> Signer(ssk),
                       recipient_key |-> PublicKeyOf(rsk)],
                      Ok(TreasureMap_encrypt(obj, Signer(ssk), PublicKeyOf(rsk))))

DoEncryptedTreasureMapDecrypt ==
    /\ AtRest
    /\ obj.kind = "EncryptedTreasureMap"
    /\ \E sk \in SecretKeys, pk \in PublicKeys :
          Called("EncryptedTreasureMap.decrypt",
                 [sk |-> sk, publisher_verifying_key |-> pk],
                 EncryptedTreasureMap_decrypt(obj, sk, pk))

\* the capsule and fragment lists a proxy may pass to ReencryptionResponse::new
ResponseInputs(dsk, rsk, n) ==
    LET caps == [i \in 1 .. n |-> BatchCapsule(PublicKeyOf(dsk), i)]
        caps_js == [i \in 1 .. n |-> JsBytes("capsule", caps[i])]
        good == [i \in 1 .. n |-> JsBytes("cfrag", GoodCFrag(caps[i], rsk, i))]
    IN  {[capsules |-> caps_js, cfrags |-> f] : f \in CFragLists(caps, rsk)}
        \cup {[capsules |-> caps_js, cfrags |-> SubSeq(good, 1, n - 1)] : k \in 1 .. Min(n, 1)}
        \cup {[capsules |-> [caps_js EXCEPT ![p] = d], cfrags |-> good]
                : p \in 1 .. n, d \in {JsGarbageBytes, JsOther}}

DoReencryptionResponseNew ==
    /\ Idle
    /\ \E usk \in SecretKeys, dsk \in SecretKeys, rsk \in SecretKeys, n \in 0 .. MaxList :
           \E in \in ResponseInputs(dsk, rsk, n) :
               Constructed("ReencryptionResponse.new",
                           [signer |-> Signer(usk), delegating_sk |-> dsk, receiving_sk |-> rsk,
                            capsules |-> in.capsules,
                            verified_capsule_frags |-> in.cfrags],
                           ReencryptionResponse_new(Signer(usk), in.capsules, in.cfrags))

\* the capsule lists a retriever may pass to verify: the capsules of the request as
\* serde values, the Uint8Arrays given to the constructor, one capsule replaced, one missing
VerifyCapsules(capsules_js) ==
    LET serde == [i \in DOMAIN capsules_js |-> JsSerde("capsule", capsules_js[i].v)]
    IN  {serde, capsules_js}
        \cup {[serde EXCEPT ![p] = JsSerde("capsule", OtherCapsule(serde[p].v))]
                : p \in DOMAIN serde}
        \cup {SubSeq(serde, 1, Len(serde) - 1) : k \in 1 .. Min(Len(serde), 1)}

\* the four keys of verify: those of the policy, or one of them replaced
VerifyKeys(dsk, usk, rsk) ==
    LET right == <<PublicKeyOf(dsk), PublicKeyOf(usk), PublicKeyOf(dsk), PublicKeyOf(rsk)>>
    IN  {right} \cup
        {[right EXCEPT ![p] = PublicKeyOf(OtherKey(Owner(right[p])))] : p \in 1 .. 4}

DoReencryptionResponseVerify ==
    /\ AtRest
    /\ obj.kind = "ReencryptionResponse"
    /\ \E capsules \in VerifyCapsules(made.capsules),
          keys \in VerifyKeys(made.delegating_sk, made.signer.signer, made.receiving_sk) :
          Called("ReencryptionResponse.verify",
                 [capsules |-> capsules,
                  alice_verifying_key |-> keys[1],
                  ursula_verifying_key |-> keys[2],
                  policy_encrypting_key |-> keys[3],
                  bob_encrypting_key |-> keys[4]],
                 ReencryptionResponse_verify(obj, capsules, keys[1], keys[2], keys[3], keys[4]))

DoThresholdDecryptionRequestNew ==
    /\ Idle
    /\ \E ritual_id \in RitualIds, ciphertext \in ByteStrings, conditions \in OptStrings,
          context \in OptStrings, variant \in FerveoVariant :
           Constructed("ThresholdDecryptionRequest.new",
                       [ritual_id |-> ritual_id, ciphertext |-> ciphertext,
                        conditions |-> conditions, context |-> context, variant |-> variant],
                       Ok(ThresholdDecryptionRequest_new(ritual_id, ciphertext, conditions,
                                                         context, variant)))

DoThresholdDecryptionResponseNew ==
    /\ Idle
    /\ \E decryption_share \in ByteStrings :
           Constructed("ThresholdDecryptionResponse.new",
                       [decryption_share |-> decryption_share],
                       Ok(ThresholdDecryptionResponse_new(decryption_share)))

DoNodeMetadataPayloadNew ==
    /\ Idle
    /\ \E a \in {Addr(1), Addr(2), <<>>, ShortAddr, LongAddr}, k \in SecretKeys :
           Constructed("NodeMetadataPayload.new",
                       [canonical_address |-> a, verifying_key |-> PublicKeyOf(k)],
                       NodePayload(a, k))

DoNodeMetadataNew ==
    /\ AtRest
    /\ obj.kind = "NodeMetadataPayload"
    /\ \E s \in SecretKeys :
           ConstructedFrom("NodeMetadata.new",
                           [signer |-> Signer(s), payload |-> obj],
                           Ok(NodeMetadata_new(Signer(s), obj)),
                           ByRef(obj))

DoNodeMetadataVerify ==
    /\ AtRest
    /\ obj.kind = "NodeMetadata"
    /\ Called("NodeMetadata.verify", NoArgs, NodeMetadata_verify(obj))

DoFleetStateChecksumNew ==
    /\ Idle
    /\ \E this_node \in {None} \cup {Some(n) : n \in FleetNodes},
          other_nodes \in {JsNotAnArray}
                          \cup {JsArray(q) : q \in SeqsWithoutRepeats(FleetNodes, MaxList)} :
           ConstructedFrom("FleetStateChecksum.new",
                           [this_node |-> this_node, other_nodes |-> other_nodes],
                           FleetStateChecksum_new(this_node, other_nodes),
                           ByValue(this_node))

DoMetadataResponsePayloadNew ==
    /\ Idle
    /\ \E announce_nodes \in {JsNotAnArray}
                             \cup {JsArray(q) : q \in SeqsWithoutRepeats(FleetNodes, 2)} :
           Constructed("MetadataResponsePayload.new",
                       [timestamp_epoch |-> 1546300800, announce_nodes |-> announce_nodes],
                       MetadataResponsePayload_new(1546300800, announce_nodes))

DoMetadataResponsePayloadAnnounceNodes ==
    /\ AtRest
    /\ obj.kind = "MetadataResponsePayload"
    /\ Called("MetadataResponsePayload.announce_nodes", NoArgs,
              MetadataResponsePayload_announce_nodes(obj))

DoMetadataResponseNew ==
    /\ AtRest
    /\ obj.kind = "MetadataResponsePayload"
    /\ \E s \in SecretKeys :
           ConstructedFrom("MetadataResponse.new",
                           [signer |-> Signer(s), response |-> obj],
                           Ok(MetadataResponse_new(Signer(s), obj)),
                           ByRef(obj))

DoMetadataResponseVerify ==
    /\ AtRest
    /\ obj.kind = "MetadataResponse"
    /\ \E pk \in PublicKeys :
           Called("MetadataResponse.verify", [verifying_pk |-> pk],
                  MetadataResponse_verify(obj, pk))

DoRevocationOrderNew ==
    /\ AtRest
    /\ obj.kind = "EncryptedKeyFrag"
    /\ \E s \in SecretKeys, ursula_address \in {Addr(1), <<>>, ShortAddr, LongAddr} :
           ConstructedFrom("RevocationOrder.new",
                           [signer |-> Signer(s), ursula_address |-> ursula_address,
                            encrypted_kfrag |-> obj],
                           RevocationOrder_new(Signer(s), ursula_address, obj),
                           ByRef(obj))

DoRevocationOrderVerifySignature ==
    /\ AtRest
    /\ obj.kind = "RevocationOrder"
    /\ \E pk \in PublicKeys :
           Called("RevocationOrder.verify_signature", [alice_verifying_key |-> pk],
                  RevocationOrder_verify_signature(obj, pk))

DoHRACNew ==
    /\ Idle
    /\ \E p \in PublicKeys, b \in PublicKeys, label \in Labels :
           Constructed("HRAC.new",
                       [publisher_verifying_key |-> p, bob_verifying_key |-> b,
                        label |-> label],
                       Ok(HRAC_new(p, b, label)))

DoHRACToBytes ==
    /\ AtRest
    /\ obj.kind = "HRAC"
    /\ Called("HRAC.to_bytes", NoArgs, Ok(HRAC_to_bytes(obj)))

DoRetrievalKitFromMessageKit ==
    /\ AtRest
    /\ obj.kind = "MessageKit"
    /\ ConstructedFrom("RetrievalKit.from_message_kit",
                       [message_kit |-> obj],
                       Ok(RetrievalKit_from_message_kit(obj)),
                       ByRef(obj))

DoRetrievalKitNew ==
    /\ Idle
    /\ \E capsule \in Capsules,
          queried_addresses \in {JsNotAnArray} \cup {JsArray(q) : q \in AddressLists} :
           Constructed("RetrievalKit.new",
                       [capsule |-> capsule, queried_addresses |-> queried_addresses],
                       RetrievalKit_new(capsule, queried_addresses))

DoRetrievalKitCapsule ==
    /\ AtRest
    /\ obj.kind = "RetrievalKit"
    /\ Called("RetrievalKit.capsule", NoArgs, Ok(RetrievalKit_capsule(obj)))

DoRetrievalKitQueriedAddresses ==
    /\ AtRest
    /\ obj.kind = "RetrievalKit"
    /\ Called("RetrievalKit.queried_addresses", NoArgs,
              Ok(RetrievalKit_queried_addresses(obj)))

DoReencryptionRequestNew ==
    /\ AtRest
    /\ obj.kind = "EncryptedKeyFrag"
    /\ \E bob \in PublicKeys, capsules \in RequestCapsules(obj.signed_by) :
           ConstructedFrom("ReencryptionRequest.new",
                           [capsules |-> capsules, hrac |-> obj.hrac,
                            encrypted_kfrag |-> obj,
                            publisher_verifying_key |-> obj.signed_by,
                            bob_verifying_key |-> bob],
                           ReencryptionRequest_new(capsules, obj.hrac, obj, obj.signed_by, bob),
                           ByRef(obj))

DoMetadataResponsePayloadTimestampEpoch ==
    /\ AtRest
    /\ obj.kind = "MetadataResponsePayload"
    /\ Called("MetadataResponsePayload.timestamp_epoch", NoArgs,
              MetadataResponsePayload_timestamp_epoch(obj))

DoMetadataRequestNew ==
    /\ Idle
    /\ \E checksum \in FleetStateChecksums,
          announce_nodes \in {JsNotAnArray} \cup {JsArray(q) : q \in AnnounceLists} :
           ConstructedFrom("MetadataRequest.new",
                           [fleet_state_checksum |-> checksum,
                            announce_nodes |-> announce_nodes],
                           MetadataRequest_new(checksum, announce_nodes),
                           ByRef(checksum))

DoMetadataRequestFleetStateChecksum ==
    /\ AtRest
    /\ obj.kind = "MetadataRequest"
    /\ Called("MetadataRequest.fleet_state_checksum", NoArgs,
              MetadataRequest_fleet_state_checksum(obj))

DoMetadataRequestAnnounceNodes ==
    /\ AtRest
    /\ obj.kind = "MetadataRequest"
    /\ Called("MetadataRequest.announce_nodes", NoArgs, MetadataRequest_announce_nodes(obj))

\* serialize the held object
DoToBytes ==
    /\ AtRest
    /\ obj.kind \in Kinds
    /\ op' = "to_bytes"
    /\ inp' = NoArgs
    /\ res' = Ok(to_bytes(obj))
    /\ data' = to_bytes(obj)
    /\ UNCHANGED <<obj, made, arg>>

\* decode the bytes as sent, as any message type
DoFromBytes ==
    /\ AtRest
    /\ data # <<>>
    /\ \E T \in Kinds :
          Called("from_bytes", [T |-> T, bytes |-> data], from_bytes(T, data))

\* decode bytes damaged in flight, as the type that was sent or the one they now claim
DoFromBytesDamaged ==
    /\ AtRest
    /\ data # <<>>
    /\ \E bytes \in Received(data) \ {data} :
       \E T \in {obj.kind} \cup {K \in Kinds : Len(bytes) >= 4 /\ SubSeq(bytes, 1, 4) = brand(K)} :
          Called("from_bytes", [T |-> T, bytes |-> bytes], from_bytes(T, bytes))

\* the caller lets go of what the last call left it
DoFree ==
    /\ ~Idle
    /\ obj' = NoObject
    /\ made' = NoArgs
    /\ data' = <<>>
    /\ op' = "free"
    /\ inp' = NoArgs
    /\ res' = Ok(NoVal)
    /\ arg' = NoObject

Next ==
    \/ DoFree
    \/ DoMessageKitNew
    \/ DoMessageKitDecrypt
    \/ DoMessageKitDecryptReencrypted
    \/ DoEncryptedKeyFragNew
    \/ DoEncryptedKeyFragDecrypt
    \/ DoTreasureMapNew
    \/ DoTreasureMapDestinations
    \/ DoTreasureMapEncrypt
    \/ DoEncryptedTreasureMapDecrypt
    \/ DoReencryptionResponseNew
    \/ DoReencryptionResponseVerify
    \/ DoThresholdDecryptionRequestNew
    \/ DoThresholdDecryptionResponseNew
    \/ DoNodeMetadataPayloadNew
    \/ DoNodeMetadataNew
    \/ DoNodeMetadataVerify
    \/ DoFleetStateChecksumNew
    \/ DoMetadataResponsePayloadNew
    \/ DoMetadataResponsePayloadAnnounceNodes
    \/ DoMetadataResponseNew
    \/ DoMetadataResponseVerify
    \/ DoRevocationOrderNew
    \/ DoRevocationOrderVerifySignature
    \/ DoHRACNew
    \/ DoHRACToBytes
    \/ DoRetrievalKitFromMessageKit
    \/ DoRetrievalKitNew
    \/ DoRetrievalKitCapsule
    \/ DoRetrievalKitQueriedAddresses
    \/ DoReencryptionRequestNew
    \/ DoMetadataResponsePayloadTimestampEpoch
    \/ DoMetadataRequestNew
    \/ DoMetadataRequestFleetStateChecksum
    \/ DoMetadataRequestAnnounceNodes
    \/ DoToBytes
    \/ DoFromBytes
    \/ DoFromBytesDamaged

Spec == Init /\ [][Next]_vars

-----------------------------------------------------------------------------
(* Several threads calling the &self methods of one object.  A call is two  *)
(* steps, its start and its return; calls of different threads overlap in   *)
(* every order.  Here op, inp and res hold one entry per thread, arg is the  *)
(* object as constructed and data its bytes taken before the first call.     *)

Threads == 1 .. NThreads

\* the objects the threads share, one of each of five types
SharedObjects ==
    {MessageKit_new(PublicKeyOf(1), <<72, 105>>, 1),
     TreasureMap_new(Signer(1), make_hrac(<<1>>), PublicKeyOf(1),
                     JsMap(<<Assignment(1, 2), Assignment(1, 1)>>), 2).val,
     RevocationOrder_new(Signer(1), Addr(1),
                         EncryptedKeyFrag_new(Signer(1), PublicKeyOf(NKeys),
                                              make_hrac(<<1>>), KeyFrag(1, NKeys, 1))).val,
     MetadataResponse_new(Signer(1),
                          MetadataResponsePayload_new(
                              1546300800, JsArray(<<Node(1, 1, 1)>>)).val)}
    \cup {ThresholdDecryptionRequest_new(200, <<7>>, Some(<<99>>), None, v)
            : v \in FerveoVariant}

Read(call, args) == [call |-> call, args |-> args]

\* the methods of x that take &self, with their arguments
ReadCalls(x) ==
    {Read("to_bytes", NoArgs)}
    \cup CASE x.kind = "MessageKit" ->
                  {Read("MessageKit.capsule", NoArgs)}
                  \cup {Read("MessageKit.decrypt", [sk |-> sk]) : sk \in SecretKeys}
           [] x.kind = "TreasureMap" ->
                  {Read("TreasureMap.destinations", NoArgs)}
                  \cup {Read("TreasureMap.encrypt",
                             [signer |-> Signer(1), recipient_key |-> pk]) : pk \in PublicKeys}
           [] x.kind = "RevocationOrder" ->
                  {Read("RevocationOrder.verify_signature", [alice_verifying_key |-> pk])
                     : pk \in PublicKeys}
           [] x.kind = "MetadataResponse" ->
                  {Read("MetadataResponse.verify", [verifying_pk |-> pk]) : pk \in PublicKeys}
           [] OTHER -> {}

\* what the method returns when it reads x
Perform(x, call, args) ==
    CASE call = "to_bytes" -> Ok(to_bytes(x))
      [] call = "MessageKit.capsule" -> Ok(MessageKit_capsule(x))
      [] call = "MessageKit.decrypt" -> MessageKit_decrypt(x, args.sk)
      [] call = "TreasureMap.destinations" -> TreasureMap_destinations(x)
      [] call = "TreasureMap.encrypt" ->
             Ok(TreasureMap_encrypt(x, args.signer, args.recipient_key))
      [] call = "RevocationOrder.verify_signature" ->
             RevocationOrder_verify_signature(x, args.alice_verifying_key)
      [] call = "MetadataResponse.verify" -> MetadataResponse_verify(x, args.verifying_pk)

Ready == [call |-> "none", at |-> "ready", overlapped |-> FALSE]

InitThreads ==
    /\ obj \in SharedObjects
    /\ arg = obj
    /\ data = to_bytes(obj)
    /\ made = NoArgs
    /\ op = [t \in Threads |-> Ready]
    /\ inp = [t \in Threads |-> NoArgs]
    /\ res = [t \in Threads |-> Ok(NoVal)]

\* thread t enters a method of the object
Invoke(t) ==
    /\ op[t].at = "ready"
    /\ \E c \in ReadCalls(obj) :
          /\ op' = [op EXCEPT ![t] = [call |-> c.call, at |-> "called", overlapped |-> FALSE]]
          /\ inp' = [inp EXCEPT ![t] = c.args]
    /\ UNCHANGED <<obj, made, data, res, arg>>

\* the method reads the object and returns; the object was lent by reference
Return(t) ==
    /\ op[t].at = "called"
    /\ res' = [res EXCEPT ![t] = Perform(obj, op[t].call, inp[t])]
    /\ op' = [op EXCEPT ![t] = [call |-> op[t].call, at |-> "returned",
                                overlapped |-> \E u \in Threads \ {t} : op[u].at = "called"]]
    /\ obj' = ByRef(obj)
    /\ UNCHANGED <<made, data, inp, arg>>

\* thread t drops the result and is ready for its next call
Retire(t) ==
    /\ op[t].at = "returned"
    /\ op' = [op EXCEPT ![t] = Ready]
    /\ inp' = [inp EXCEPT ![t] = NoArgs]
    /\ res' = [res EXCEPT ![t] = Ok(NoVal)]
    /\ UNCHANGED <<obj, made, data, arg>>

NextThreads == \E t \in Threads : Invoke(t) \/ Return(t) \/ Retire(t)

SpecThreads == InitThreads /\ [][NextThreads]_vars

-----------------------------------------------------------------------------
(* Properties of the envelope *)

\* the header fields of a byte string of at least 8 bytes
HeaderBrand(bytes) == SubSeq(bytes, 1, 4)

HeaderMajor(bytes) == from_u16_le(SubSeq(bytes, 5, 6))

HeaderMinor(bytes) == from_u16_le(SubSeq(bytes, 7, 8))

Failed(r, kind) == r.status = "err" /\ r.err = kind

C2_WrongKindRejected ==
    op = "from_bytes" =>
        /\ (Len(inp.bytes) >= 4 /\ HeaderBrand(inp.bytes) # brand(inp.T))
               => Failed(res, "FormatError")
        /\ (/\ inp.T = "ThresholdDecryptionRequest"
            /\ Len(inp.bytes) >= 4
            /\ HeaderBrand(inp.bytes) # <<84, 104, 82, 113>>)
               => Failed(res, "FormatError")
        /\ (/\ inp.T = "ThresholdDecryptionResponse"
            /\ Len(inp.bytes) >= 4
            /\ HeaderBrand(inp.bytes) # <<84, 104, 82, 115>>)
               => Failed(res, "FormatError")
        /\ (/\ Len(inp.bytes) >= 6
            /\ HeaderBrand(inp.bytes) = brand(inp.T)
            /\ HeaderMajor(inp.bytes) # version(inp.T)[1])
               => Failed(res, "VersionError")
        /\ (inp.bytes = data /\ inp.T # obj.kind) => ~IsOk(res)

\* a genuine request was offered to the response decoder and refused as the wrong type
C2_Witness ==
    /\ op = "from_bytes" /\ inp.bytes = data
    /\ obj.kind = "ThresholdDecryptionRequest"
    /\ inp.T = "ThresholdDecryptionResponse"
    /\ Failed(res, "FormatError")

\* C3: with the right brand, the current major version and the payload as encoded,
\* decoding succeeds exactly when the header's minor version is at most the type's
\* current minor version and fails with VersionError when it is greater; the parsers
\* of the two threshold decryption messages exist for minor version 0 only.
C3_MinorDispatch ==
    (/\ op = "from_bytes"
     /\ Len(inp.bytes) >= 8
     /\ inp.T = obj.kind
     /\ HeaderBrand(inp.bytes) = brand(inp.T)
     /\ HeaderMajor(inp.bytes) = version(inp.T)[1]
     /\ Drop(inp.bytes, 8) = Drop(data, 8))
        => /\ IsOk(res) <=> HeaderMinor(inp.bytes) <= version(inp.T)[2]
           /\ HeaderMinor(inp.bytes) > version(inp.T)[2] => Failed(res, "VersionError")
           /\ inp.T = "ThresholdDecryptionRequest" =>
                 (ThresholdDecryptionRequest_unversioned_from_bytes(
                      HeaderMinor(inp.bytes), Drop(inp.bytes, 8)).some
                  <=> HeaderMinor(inp.bytes) = 0)
           /\ inp.T = "ThresholdDecryptionResponse" =>
                 (ThresholdDecryptionResponse_unversioned_from_bytes(
                      HeaderMinor(inp.bytes), Drop(inp.bytes, 8)).some
                  <=> HeaderMinor(inp.bytes) = 0)

\* a response that says minor version 1 was refused with VersionError
C3_Witness ==
    /\ op = "from_bytes"
    /\ Len(inp.bytes) >= 8
    /\ inp.T = "ThresholdDecryptionResponse" /\ obj.kind = inp.T
    /\ HeaderBrand(inp.bytes) = brand(inp.T)
    /\ HeaderMajor(inp.bytes) = 1
    /\ HeaderMinor(inp.bytes) = 1
    /\ Drop(inp.bytes, 8) = Drop(data, 8)
    /\ Failed(res, "VersionError")

-----------------------------------------------------------------------------
(* Properties of the components *)

\* C4: for the recipient's secret key, EncryptedKeyFrag.decrypt returns the key
\* fragment given to the constructor exactly when the hrac is the constructor's and
\* the verifying key is the signer's; with another hrac or another verifying key it
\* fails with CryptoError and returns no fragment.
C4_KeyFragDecrypt ==
    (op = "EncryptedKeyFrag.decrypt" /\ PublicKeyOf(inp.sk) = made.recipient_key)
        => IF /\ inp.hrac = made.hrac
              /\ inp.publisher_verifying_key = verifying_key(made.signer)
           THEN IsOk(res) /\ res.val = made.verified_kfrag
           ELSE Failed(res, "CryptoError") /\ res.val = NoVal

\* the recipient offered the right verifying key with another hrac and was refused
C4_Witness ==
    /\ op = "EncryptedKeyFrag.decrypt"
    /\ PublicKeyOf(inp.sk) = made.recipient_key
    /\ inp.publisher_verifying_key = verifying_key(made.signer)
    /\ inp.hrac # made.hrac
    /\ Failed(res, "CryptoError")

\* the capsules given to verify, when every one of them is a decodable capsule value
VerifyInputDecodes ==
    \A i \in DOMAIN inp.capsules : IsOk(into_serde_Capsule(inp.capsules[i]))

\* every fragment of the held response verifies against the capsule at its position
\* and the given keys, and the signature is the proxy's over these capsules
ResponseVerifies ==
    LET capsules == [i \in DOMAIN inp.capsules |-> into_serde_Capsule(inp.capsules[i]).val]
    IN  /\ Len(capsules) = Len(obj.cfrags)
        /\ obj.signed_by = inp.ursula_verifying_key
        /\ obj.capsules = capsules
        /\ \A i \in DOMAIN obj.cfrags :
              CFragVerifies(obj.cfrags[i], capsules[i], inp.alice_verifying_key,
                            inp.policy_encrypting_key, inp.bob_encrypting_key)

\* some fragment of the held response does not verify against the capsule at its
\* position and the given keys
SomePairFails ==
    /\ Len(inp.capsules) = Len(obj.cfrags)
    /\ \E i \in DOMAIN obj.cfrags :
          ~CFragVerifies(obj.cfrags[i], into_serde_Capsule(inp.capsules[i]).val,
                         inp.alice_verifying_key, inp.policy_encrypting_key,
                         inp.bob_encrypting_key)

\* C5: ReencryptionResponse.verify is all-or-nothing: it returns fragments only
\* when the signature and every (capsule, fragment) pair verify, and when any single
\* pair fails the call returns the error value CryptoError and no fragment.
C5_VerifyAllOrNothing ==
    (op = "ReencryptionResponse.verify" /\ VerifyInputDecodes)
        => /\ IsOk(res) => (ResponseVerifies /\ Len(res.val) = Len(obj.cfrags))
           /\ SomePairFails => (Failed(res, "CryptoError") /\ res.val = NoVal)

\* the fragments given to decrypt_reencrypted are all decodable capsule fragments
FragmentsDecode ==
    \A i \in DOMAIN inp.cfrags :
        inp.cfrags[i].js = "Uint8Array" /\ inp.cfrags[i].what = "cfrag"

\* they are fragments of the held kit's capsule, made for the caller's key from
\* distinct shares of the kit's policy key
FragmentsOfPolicy ==
    /\ \A i \in DOMAIN inp.cfrags :
          /\ inp.cfrags[i].v.capsule = obj.capsule
          /\ inp.cfrags[i].v.kfrag.delegating = made.policy_encrypting_key
          /\ inp.cfrags[i].v.kfrag.receiving = PublicKeyOf(inp.sk)
    /\ \A i, j \in DOMAIN inp.cfrags :
          i # j => inp.cfrags[i].v.kfrag.id # inp.cfrags[j].v.kfrag.id

\* C6: for a policy of threshold m (2 of 3), decrypt_reencrypted returns the
\* plaintext the kit was made of whenever at least m valid fragments of that policy
\* are supplied with the policy key, and fails with InsufficientFragments whenever
\* fewer than m fragments are supplied.
C6_Threshold ==
    (op = "MessageKit.decrypt_reencrypted" /\ FragmentsDecode)
        => /\ (/\ Len(inp.cfrags) >= KFragThreshold
               /\ FragmentsOfPolicy
               /\ inp.policy_encrypting_key = made.policy_encrypting_key)
                  => (IsOk(res) /\ res.val = made.plaintext)
           /\ Len(inp.cfrags) < KFragThreshold
                  => (Failed(res, "InsufficientFragments") /\ res.val = NoVal)

\* exactly m fragments of the policy opened a kit with a non-empty plaintext
C6_Witness ==
    /\ op = "MessageKit.decrypt_reencrypted"
    /\ FragmentsDecode
    /\ Len(inp.cfrags) = KFragThreshold
    /\ FragmentsOfPolicy
    /\ inp.policy_encrypting_key = made.policy_encrypting_key
    /\ made.plaintext # <<>>
    /\ IsOk(res) /\ res.val = made.plaintext

\* C7: MessageKit.decrypt with the secret key of the key the kit was made for returns
\* the plaintext given to the constructor; with any other secret key it fails with
\* CryptoError and returns no plaintext.
C7_MessageKitDecrypt ==
    op = "MessageKit.decrypt"
        => IF PublicKeyOf(inp.sk) = made.policy_encrypting_key
           THEN IsOk(res) /\ res.val = made.plaintext
           ELSE Failed(res, "CryptoError") /\ res.val = NoVal

\* another secret key was tried on a kit with a non-empty plaintext
C7_Witness ==
    /\ op = "MessageKit.decrypt"
    /\ PublicKeyOf(inp.sk) # made.policy_encrypting_key
    /\ made.plaintext # <<>>
    /\ Failed(res, "CryptoError")

\* the assignment given to TreasureMap.new is a map whose keys are all addresses
AssignmentWellFormed ==
    /\ inp.assigned_kfrags.js = "map"
    /\ \A i \in DOMAIN inp.assigned_kfrags.entries :
          Len(inp.assigned_kfrags.entries[i].address) = AddressSize

\* C8: TreasureMap.new with a threshold greater than the number of assigned
\* fragments fails with PolicyError, returned as an error value, and every treasure
\* map there is has a threshold of at most its number of destinations.
C8_ThresholdWithinShares ==
    /\ (/\ op = "TreasureMap.new"
        /\ AssignmentWellFormed
        /\ inp.threshold > Len(inp.assigned_kfrags.entries))
           => (Failed(res, "PolicyError") /\ obj = NoObject)
    /\ obj.kind = "TreasureMap" => obj.threshold <= Len(obj.destinations)

\* C9: decrypting tm.encrypt(s, pk) with the secret key of pk and the verifying key of
\* s returns a treasure map equal to tm; with another secret key or another verifying
\* key it fails with CryptoError.
C9_TreasureMapRoundTrip ==
    op = "EncryptedTreasureMap.decrypt"
        => IF /\ PublicKeyOf(inp.sk) = made.recipient_key
              /\ inp.publisher_verifying_key = verifying_key(made.signer)
           THEN IsOk(res) /\ res.val = made.treasure_map
           ELSE Failed(res, "CryptoError") /\ res.val = NoVal

\* a map of three destinations encrypted by one party for another came back whole
C9_Witness ==
    /\ op = "EncryptedTreasureMap.decrypt"
    /\ made.recipient_key # verifying_key(made.signer)
    /\ PublicKeyOf(inp.sk) = made.recipient_key
    /\ inp.publisher_verifying_key = verifying_key(made.signer)
    /\ Len(made.treasure_map.destinations) = 3
    /\ IsOk(res) /\ res.val = made.treasure_map

\* C10: destinations() of a treasure map built from n distinct addresses has n
\* entries, one per address given and each with the fragment encrypted for that
\* address's key, in ascending address order whatever order they were given in.
C10_DestinationsSorted ==
    op = "TreasureMap.destinations"
        => /\ IsOk(res)
           /\ LET given == made.assigned_kfrags.entries
                  d == res.val
              IN  /\ Len(d) = Cardinality({given[i].address : i \in DOMAIN given})
                  /\ {d[i][1] : i \in DOMAIN d} = {given[i].address : i \in DOMAIN given}
                  /\ \A i, j \in DOMAIN d : i < j => LexLess(d[i][1], d[j][1])
                  /\ \A i \in DOMAIN d : \E k \in DOMAIN given :
                        /\ given[k].address = d[i][1]
                        /\ d[i][2] = EncryptedKeyFrag_new(made.signer, given[k].key,
                                                          made.hrac, given[k].kfrag)

\* three addresses given in descending order came back in ascending order
C10_Witness ==
    /\ op = "TreasureMap.destinations"
    /\ Len(made.assigned_kfrags.entries) = 3
    /\ made.assigned_kfrags.entries[1].address = Addr(3)
    /\ made.assigned_kfrags.entries[3].address = Addr(1)
    /\ IsOk(res)
    /\ Len(res.val) = 3
    /\ res.val[1][1] = Addr(1) /\ res.val[3][1] = Addr(3)

-----------------------------------------------------------------------------
(* Properties of the node directory *)

\* C11: the fleet state checksum does not depend on the order of other_nodes: every
\* reordering of the list given, with the same this_node, yields the same checksum,
\* also when distinct node records in the list carry the same canonical address.
C11_ChecksumOrderIndependent ==
    (op = "FleetStateChecksum.new" /\ IsOk(res))
        => \A q \in Orderings(inp.other_nodes.items) :
               FleetStateChecksum_new(inp.this_node, JsArray(q)) = res

\* the checksum of peers at distinct addresses does not depend on their order
C11_DistinctAddresses ==
    (/\ op = "FleetStateChecksum.new" /\ IsOk(res)
     /\ \A i, j \in DOMAIN inp.other_nodes.items :
           i # j => inp.other_nodes.items[i].payload.canonical_address
                    # inp.other_nodes.items[j].payload.canonical_address)
        => \A q \in Orderings(inp.other_nodes.items) :
               FleetStateChecksum_new(inp.this_node, JsArray(q)) = res

\* C12: the payload of a MetadataResponse reaches the caller only as the result of
\* verify with the signer's verifying key: verify with that key returns the payload the
\* response was made of, verify with any other key fails with 'Invalid signature' and
\* returns nothing, and neither the constructor nor from_bytes returns a payload.
C12_VerifyGatesPayload ==
    obj.kind = "MetadataResponse"
        => /\ op = "MetadataResponse.verify"
                 => IF inp.verifying_pk = verifying_key(made.signer)
                    THEN IsOk(res) /\ res.val = made.response
                    ELSE Failed(res, "Invalid signature") /\ res.val = NoVal
           /\ (op \in {"MetadataResponse.new", "from_bytes"} /\ IsOk(res))
                 => res.val.kind # "MetadataResponsePayload"
           /\ op \in {"MetadataResponse.new", "from_bytes", "to_bytes",
                      "MetadataResponse.verify"}

\* a response announcing two nodes was offered another key and gave nothing away
C12_Witness ==
    /\ obj.kind = "MetadataResponse"
    /\ op = "MetadataResponse.verify"
    /\ inp.verifying_pk # verifying_key(made.signer)
    /\ Len(made.response.announce_nodes) = 2
    /\ Failed(res, "Invalid signature") /\ res.val = NoVal

\* C13: NodeMetadata.verify returns a boolean and never an error: true exactly when
\* the announcement was signed with the secret key of the verifying key in its
\* payload, false when it was signed with any other key.
C13_NodeMetadataVerify ==
    op = "NodeMetadata.verify"
        => /\ res.status = "ok"
           /\ res.val \in BOOLEAN
           /\ res.val <=> (verifying_key(made.signer) = made.payload.verifying_key)

\* an announcement signed with a key that is not its payload's was found false
C13_Witness ==
    /\ op = "NodeMetadata.verify"
    /\ verifying_key(made.signer) # made.payload.verifying_key
    /\ res.status = "ok" /\ res.val = FALSE

\* C14: RevocationOrder.verify_signature returns a boolean and never an error: true
\* for the signer's verifying key and false for every other key; new and
\* verify_signature leave the encrypted key fragment passed to new as it was.
C14_RevocationOrder ==
    /\ op = "RevocationOrder.verify_signature"
          => /\ res.status = "ok"
             /\ res.val \in BOOLEAN
             /\ res.val <=> (inp.alice_verifying_key = verifying_key(made.signer))
             /\ arg = made.encrypted_kfrag
             /\ obj.encrypted_kfrag = made.encrypted_kfrag
    /\ op = "RevocationOrder.new"
          => /\ arg = made.encrypted_kfrag
             /\ res.status # "panic"

\* an order was checked against a key that is not its signer's and found false
C14_Witness ==
    /\ op = "RevocationOrder.verify_signature"
    /\ inp.alice_verifying_key # verifying_key(made.signer)
    /\ res.status = "ok" /\ res.val = FALSE
    /\ arg = made.encrypted_kfrag

\* C15: no operation panics: whatever the inputs, an operation that cannot succeed
\* ends in a returned error.
C15_NoPanic == res.status # "panic"

C17_DkgHeader ==
    /\ (op = "to_bytes" /\ obj.kind = "ThresholdDecryptionRequest")
          => /\ IsOk(res)
             /\ Len(res.val) > 8
             /\ SubSeq(res.val, 1, 8) = <<84, 104, 82, 113, 1, 0, 0, 0>>
             /\ Drop(res.val, 8) = ThresholdDecryptionRequest_unversioned_to_bytes(obj)
    /\ (op = "to_bytes" /\ obj.kind = "ThresholdDecryptionResponse")
          => /\ IsOk(res)
             /\ Len(res.val) > 8
             /\ SubSeq(res.val, 1, 8) = <<84, 104, 82, 115, 1, 0, 0, 0>>
             /\ Drop(res.val, 8) = ThresholdDecryptionResponse_unversioned_to_bytes(obj)

\* a request with conditions and a context was encoded
C17_Witness ==
    /\ op = "to_bytes" /\ obj.kind = "ThresholdDecryptionRequest"
    /\ obj.conditions.some /\ obj.context.some
    /\ SubSeq(res.val, 1, 8) = <<84, 104, 82, 113, 1, 0, 0, 0>>

\* C18: RetrievalKit.from_message_kit gives a kit with no queried addresses and the
\* capsule of the message kit, and leaves the message kit as it was.
C18_FromMessageKit ==
    /\ op = "RetrievalKit.from_message_kit"
          => /\ IsOk(res)
             /\ RetrievalKit_queried_addresses(obj) = <<>>
             /\ RetrievalKit_capsule(obj) = MessageKit_capsule(made.message_kit)
             /\ arg = made.message_kit
    /\ (op = "RetrievalKit.queried_addresses" /\ "message_kit" \in DOMAIN made)
          => IsOk(res) /\ res.val = <<>> /\ arg = made.message_kit
    /\ (op = "RetrievalKit.capsule" /\ "message_kit" \in DOMAIN made)
          => IsOk(res) /\ res.val = made.message_kit.capsule /\ arg = made.message_kit

\* the addresses of a kit made from a message kit were read and there were none
C18_Witness ==
    /\ op = "RetrievalKit.queried_addresses"
    /\ "message_kit" \in DOMAIN made
    /\ made.message_kit.kind = "MessageKit"
    /\ IsOk(res) /\ res.val = <<>>
    /\ arg = made.message_kit

\* the held response was made of decodable capsules and, for each of them, a fragment
\* produced from it with a key fragment of the policy
ResponseWellMade ==
    /\ Len(made.capsules) = Len(made.verified_capsule_frags)
    /\ \A i \in DOMAIN made.capsules :
          /\ IsOk(Capsule_from_bytes(made.capsules[i]))
          /\ IsOk(VerifiedCapsuleFrag_from_verified_bytes(made.verified_capsule_frags[i]))
          /\ CFragVerifies(made.verified_capsule_frags[i].v, made.capsules[i].v,
                           PublicKeyOf(made.delegating_sk), PublicKeyOf(made.delegating_sk),
                           PublicKeyOf(made.receiving_sk))

\* verify is given the capsules the response was made of and the keys of the policy
VerifyAsMade ==
    /\ inp.capsules = [i \in DOMAIN made.capsules |-> JsSerde("capsule", made.capsules[i].v)]
    /\ inp.alice_verifying_key = PublicKeyOf(made.delegating_sk)
    /\ inp.ursula_verifying_key = verifying_key(made.signer)
    /\ inp.policy_encrypting_key = PublicKeyOf(made.delegating_sk)
    /\ inp.bob_encrypting_key = PublicKeyOf(made.receiving_sk)

\* C19: when every fragment of a response was produced from the capsule at its
\* position with a key fragment of the policy, verify with the same capsules and the
\* right four keys succeeds and returns as many fragments as there are capsules, the
\* i-th of them being the i-th fragment given to ReencryptionResponse.new.
C19_VerifyReturnsFragments ==
    (op = "ReencryptionResponse.verify" /\ ResponseWellMade /\ VerifyAsMade)
        => /\ IsOk(res)
           /\ Len(res.val) = Len(inp.capsules)
           /\ \A i \in DOMAIN res.val :
                 res.val[i] = JsSerde("cfrag", made.verified_capsule_frags[i].v)

\* a response of three fragments was verified and gave them back in order
C19_Witness ==
    /\ op = "ReencryptionResponse.verify" /\ ResponseWellMade /\ VerifyAsMade
    /\ Len(inp.capsules) = 3
    /\ made.verified_capsule_frags[1] # made.verified_capsule_frags[3]
    /\ IsOk(res) /\ Len(res.val) = 3

\* the two lists given to ReencryptionResponse.new are decodable capsules and fragments
ResponseInputDecodes ==
    /\ IsOk(js_value_to_u8_vec(inp.capsules))
    /\ IsOk(js_value_to_u8_vec(inp.verified_capsule_frags))
    /\ \A i \in DOMAIN inp.capsules : IsOk(Capsule_from_bytes(inp.capsules[i]))
    /\ \A i \in DOMAIN inp.verified_capsule_frags :
          IsOk(VerifiedCapsuleFrag_from_verified_bytes(inp.verified_capsule_frags[i]))

\* C20: ReencryptionResponse.new given lists of different lengths returns an error and
\* no response, and every response there is has as many fragments as capsules.
C20_LengthsChecked ==
    /\ (/\ op = "ReencryptionResponse.new"
        /\ ResponseInputDecodes
        /\ Len(inp.capsules) # Len(inp.verified_capsule_frags))
           => (res.status = "err" /\ obj = NoObject)
    /\ obj.kind = "ReencryptionResponse" => Len(obj.cfrags) = Len(obj.capsules)

-----------------------------------------------------------------------------
(* Properties of construction and of the registry *)

AddressesIn(x) ==
    CASE x.kind = "RevocationOrder" -> {x.ursula_address}
      [] x.kind = "NodeMetadataPayload" -> {x.canonical_address}
      [] x.kind = "NodeMetadata" -> {x.payload.canonical_address}
      [] x.kind = "TreasureMap" -> {x.destinations[i].address : i \in DOMAIN x.destinations}
      [] x.kind = "RetrievalKit" -> Range(x.queried_addresses)
      [] x.kind = "MetadataResponsePayload" ->
             {x.announce_nodes[i].payload.canonical_address : i \in DOMAIN x.announce_nodes}
      [] OTHER -> {}

\* C22: an address is accepted exactly when it is 20 bytes long: with any other length
\* RevocationOrder.new and NodeMetadataPayload.new return an 'Invalid address' error
\* and no object, and every address inside a constructed object is 20 bytes long.
C22_AddressValidated ==
    /\ \A a \in {<<>>, ShortAddr, Addr(1), Addr(2), LongAddr} :
          IsOk(try_make_address(a)) <=> Len(a) = 20
    /\ op = "RevocationOrder.new"
          => IF Len(inp.ursula_address) = 20
             THEN IsOk(res) /\ obj.ursula_address = inp.ursula_address
             ELSE Failed(res, "Invalid address") /\ obj = NoObject
    /\ op = "NodeMetadataPayload.new"
          => IF Len(inp.canonical_address) = 20
             THEN IsOk(res) /\ obj.canonical_address = inp.canonical_address
             ELSE Failed(res, "Invalid address") /\ obj = NoObject
    /\ \A a \in AddressesIn(obj) : Len(a) = 20

\* an order for an address of 21 bytes was refused and nothing was made
C22_Witness ==
    /\ op = "RevocationOrder.new"
    /\ Len(inp.ursula_address) = 21
    /\ Failed(res, "Invalid address")
    /\ obj = NoObject

NodesOf(values) == [i \in DOMAIN values |-> values[i].v]

\* C24: MetadataRequest.new and MetadataResponsePayload.new keep the announced nodes as
\* given: the announce_nodes accessor returns the supplied list, element by element in
\* the same order, and the fleet_state_checksum and timestamp_epoch accessors return
\* the supplied values.
C24_AnnouncedNodesKept ==
    /\ (op = "MetadataRequest.new" /\ inp.announce_nodes.js = "array")
          => /\ IsOk(res)
             /\ NodesOf(MetadataRequest_announce_nodes(obj).val) = inp.announce_nodes.items
             /\ MetadataRequest_fleet_state_checksum(obj).val = inp.fleet_state_checksum
    /\ op = "MetadataRequest.announce_nodes"
          => IsOk(res) /\ NodesOf(res.val) = made.announce_nodes.items
    /\ op = "MetadataRequest.fleet_state_checksum"
          => IsOk(res) /\ res.val = made.fleet_state_checksum
    /\ (op = "MetadataResponsePayload.new" /\ inp.announce_nodes.js = "array")
          => /\ IsOk(res)
             /\ NodesOf(MetadataResponsePayload_announce_nodes(obj).val)
                    = inp.announce_nodes.items
             /\ MetadataResponsePayload_timestamp_epoch(obj).val = inp.timestamp_epoch
    /\ op = "MetadataResponsePayload.announce_nodes"
          => IsOk(res) /\ NodesOf(res.val) = made.announce_nodes.items
    /\ op = "MetadataResponsePayload.timestamp_epoch"
          => IsOk(res) /\ res.val = made.timestamp_epoch

\* the two different nodes a request announced were read back in the order given
C24_Witness ==
    /\ op = "MetadataRequest.announce_nodes"
    /\ Len(made.announce_nodes.items) = 2
    /\ made.announce_nodes.items[1] # made.announce_nodes.items[2]
    /\ IsOk(res) /\ NodesOf(res.val) = made.announce_nodes.items

IsBrand(b) == Len(b) = 4 /\ \A i \in 1 .. 4 : b[i] >= 32 /\ b[i] <= 126

=============================================================================
